---- MODULE Spec2Model ----
(***************************************************************************)
(* Model of py-dep-licenses-mcp-server (src/server.js): the tool-call      *)
(* handler, getPythonDependencies, the manifest parsers, the batched       *)
(* license lookup and the license classifier.                              *)
(*                                                                         *)
(* JavaScript strings are sequences of one-character strings, written      *)
(* Chars("text"); null and undefined are the one-element sequences Null    *)
(* and Undefined, which no character sequence equals.                      *)
(***************************************************************************)
EXTENDS Integers, Sequences, FiniteSets, TLC

VARIABLES
    manifest,       \* SpecParse: the arguments of parseDependencies
    parsed,         \* SpecParse: whether parseDependencies has returned, and what
    license,        \* SpecClassify: the argument of analyzeCommercialLicense
    analysis,       \* SpecClassify: the values returned by the calls made so far
    request,        \* the tools/call request: params.name and params.arguments
    pc,             \* where the request stands: the await it is suspended at
    repo,           \* owner and repoName of getPythonDependencies
    fileIdx,        \* the position of the for loop in dependencyFiles
    foundFile,      \* foundFile of getPythonDependencies
    dependencies,   \* dependencies of getPythonDependencies
    fetchLog,       \* the manifest fetches issued so far (axios.get), in order
    lastResponse,   \* the answer to the latest manifest fetch
    sawFailure,     \* some manifest fetch was answered by a failure other than 404
    sawEmptyBody,   \* some manifest fetch was answered by 200 with an empty body
    batchStart,     \* fetchLicenseInformation: index of the first name of the batch
    lookupResult,   \* the answer to the lookup of each name, once it has settled
    lookupLog,      \* the package lookups issued so far (axios.get), in order
    dependenciesWithLicenses,   \* the records pushed by fetchLicenseInformation
    depsResult,     \* how getPythonDependencies ended
    response,       \* how the tools/call handler ended
    outOfOrder,     \* history: a lookup settled before one issued ahead of it
    suspended       \* SpecTwo: the locals of the request that is not running

classifyVars == <<license, analysis>>

parseVars == <<manifest, parsed>>

requestVars ==
    <<request, pc, repo, fileIdx, foundFile, dependencies, fetchLog,
      lastResponse, sawFailure, sawEmptyBody, batchStart, lookupResult,
      lookupLog, dependenciesWithLicenses, depsResult, response, outOfOrder>>

vars == <<classifyVars, parseVars, requestVars, suspended>>

----------------------------------------------------------------------------
(* JavaScript values and string primitives                                 *)

Chars(s) == [i \in 1..Len(s) |-> SubSeq(s, i, i)]

Null == <<"null">>
Undefined == <<"undefined">>

\* !x for x a string, null or undefined
IsFalsy(x) == x = Null \/ x = Undefined \/ x = <<>>

UpperLetters == Chars("ABCDEFGHIJKLMNOPQRSTUVWXYZ")
LowerLetters == Chars("abcdefghijklmnopqrstuvwxyz")

ToLowerChar(c) ==
    IF \E i \in 1..26 : UpperLetters[i] = c
    THEN LowerLetters[CHOOSE i \in 1..26 : UpperLetters[i] = c]
    ELSE c

\* String.prototype.toLowerCase
ToLowerCase(s) == [i \in 1..Len(s) |-> ToLowerChar(s[i])]

\* s has k at (1-based) position i
HasAt(s, k, i) ==
    /\ i >= 1
    /\ i + Len(k) - 1 <= Len(s)
    /\ \A j \in 1..Len(k) : s[i + j - 1] = k[j]

\* String.prototype.includes
Includes(s, k) == \E i \in 1..(Len(s) + 1) : HasAt(s, k, i)

\* String.prototype.startsWith / endsWith
StartsWith(s, k) == HasAt(s, k, 1)
EndsWith(s, k) == Len(k) <= Len(s) /\ HasAt(s, k, Len(s) - Len(k) + 1)

\* String.prototype.indexOf, 1-based; 0 when k does not occur
IndexOf(s, k) ==
    IF Includes(s, k)
    THEN CHOOSE i \in 1..(Len(s) + 1) :
            HasAt(s, k, i) /\ \A j \in 1..(i - 1) : ~HasAt(s, k, j)
    ELSE 0

\* s.split(k)[0] for a non-empty separator k: the text before the first k
SplitFirst(s, k) ==
    IF IndexOf(s, k) = 0 THEN s ELSE SubSeq(s, 1, IndexOf(s, k) - 1)

WhiteSpace == {" ", "\t", "\n", "\r"}

RECURSIVE TrimStart(_)
TrimStart(s) ==
    IF s # <<>> /\ Head(s) \in WhiteSpace THEN TrimStart(Tail(s)) ELSE s

RECURSIVE TrimEnd(_)
TrimEnd(s) ==
    IF s # <<>> /\ s[Len(s)] \in WhiteSpace
    THEN TrimEnd(SubSeq(s, 1, Len(s) - 1))
    ELSE s

\* String.prototype.trim
Trim(s) == TrimEnd(TrimStart(s))

\* length of the longest run of characters outside `stop` that starts at p
RECURSIVE RunNotIn(_, _, _)
RunNotIn(s, p, stop) ==
    IF p > Len(s) \/ s[p] \in stop THEN 0 ELSE 1 + RunNotIn(s, p + 1, stop)

\* length of the longest run of characters of `allowed` that starts at p
RECURSIVE RunIn(_, _, _)
RunIn(s, p, allowed) ==
    IF p > Len(s) \/ s[p] \notin allowed THEN 0 ELSE 1 + RunIn(s, p + 1, allowed)

\* s.split(c) for a one-character separator c: never empty
RECURSIVE Split(_, _)
Split(s, c) ==
    LET n == RunNotIn(s, 1, {c})
    IN  IF n = Len(s) THEN <<s>>
        ELSE <<SubSeq(s, 1, n)>> \o Split(SubSeq(s, n + 2, Len(s)), c)

\* s.replace(/[...]/g, '') : s without the characters of `drop`
RECURSIVE RemoveChars(_, _)
RemoveChars(s, drop) ==
    IF s = <<>> THEN <<>>
    ELSE IF Head(s) \in drop THEN RemoveChars(Tail(s), drop)
    ELSE <<Head(s)>> \o RemoveChars(Tail(s), drop)

\* [...new Set(xs)]: first occurrences, in order
RECURSIVE Unique(_)
Unique(xs) ==
    IF xs = <<>> THEN <<>>
    ELSE LET init == Unique(SubSeq(xs, 1, Len(xs) - 1))
             last == xs[Len(xs)]
         IN  IF \E i \in 1..Len(init) : init[i] = last THEN init
             ELSE Append(init, last)

----------------------------------------------------------------------------
(* analyzeCommercialLicense (src/server.js 671-749)                        *)

NoteUnavailable == "License information unavailable"
NoteFree == "Free for commercial use"
NoteFreeOSI == "Free for commercial use (OSI Approved)"
NoteUnknown == "Unknown license - Verify commercial use terms"
NoteGnu == "GNU license - Check commercial use restrictions"
NoteCopyleftWarning == "Copyleft license - Check commercial use restrictions"
NoteLikelyPaid == "Commercial/Proprietary license - Payment likely required"

Entry(k, s, n) == [key |-> Chars(k), value |-> [status |-> s, note |-> n]]

\* the object literal, in insertion order (the order Object.entries gives)
freeCommercialLicenses ==
    << Entry("mit", "free", NoteFree),
       Entry("apache", "free", NoteFree),
       Entry("apache 2.0", "free", NoteFree),
       Entry("apache-2.0", "free", NoteFree),
       Entry("bsd", "free", NoteFree),
       Entry("bsd-3-clause", "free", NoteFree),
       Entry("bsd-2-clause", "free", NoteFree),
       Entry("isc", "free", NoteFree),
       Entry("mpl", "free", NoteFree),
       Entry("mozilla public license", "free", NoteFree),
       Entry("unlicense", "free", NoteFree),
       Entry("cc0", "free", NoteFree),
       Entry("zlib", "free", NoteFree),
       Entry("osi approved", "free", NoteFreeOSI) >>

\* paidCommercialLicenses without the keys that the heuristic rules test for
paidCommercialLicenses_NoHeuristicWords ==
    << Entry("gpl", "paid", "GPL - May require payment for commercial use"),
       Entry("gplv2", "paid", "GPL v2 - May require payment for commercial use"),
       Entry("gplv3", "paid", "GPL v3 - May require payment for commercial use"),
       Entry("gpl-2.0", "paid", "GPL v2 - May require payment for commercial use"),
       Entry("gpl-3.0", "paid", "GPL v3 - May require payment for commercial use"),
       Entry("agpl", "paid", "AGPL - May require payment for commercial use"),
       Entry("agplv3", "paid", "AGPL v3 - May require payment for commercial use"),
       Entry("trial", "paid", "Trial license - Payment required for production"),
       Entry("evaluation", "paid", "Evaluation license - Payment required for production") >>

paidCommercialLicenses ==
    << Entry("gpl", "paid", "GPL - May require payment for commercial use"),
       Entry("gplv2", "paid", "GPL v2 - May require payment for commercial use"),
       Entry("gplv3", "paid", "GPL v3 - May require payment for commercial use"),
       Entry("gpl-2.0", "paid", "GPL v2 - May require payment for commercial use"),
       Entry("gpl-3.0", "paid", "GPL v3 - May require payment for commercial use"),
       Entry("agpl", "paid", "AGPL - May require payment for commercial use"),
       Entry("agplv3", "paid", "AGPL v3 - May require payment for commercial use"),
       Entry("copyleft", "paid", "Copyleft license - May require payment for commercial use"),
       Entry("commercial", "paid", "Commercial license - Payment required"),
       Entry("proprietary", "paid", "Proprietary license - Payment required"),
       Entry("trial", "paid", "Trial license - Payment required for production"),
       Entry("evaluation", "paid", "Evaluation license - Payment required for production") >>

\* The property names every object literal inherits from Object.prototype.
\* table[name] is the inherited function or object for these names: a truthy
\* value that has no status and no note.
ObjectPrototypeKeys ==
    { Chars("constructor"), Chars("__proto__"), Chars("hasOwnProperty"),
      Chars("isPrototypeOf"), Chars("propertyIsEnumerable"), Chars("toString"),
      Chars("toLocaleString"), Chars("valueOf"), Chars("__defineGetter__"),
      Chars("__defineSetter__"), Chars("__lookupGetter__"),
      Chars("__lookupSetter__") }

InheritedValue == [status |-> "undefined", note |-> "undefined"]

OwnKeys(table) == { table[i].key : i \in 1..Len(table) }

\* table[key] is truthy: an own entry, or a member inherited from
\* Object.prototype
HasProperty(table, key) == key \in OwnKeys(table) \/ key \in ObjectPrototypeKeys

\* table[key] when HasProperty(table, key)
GetProperty(table, key) ==
    IF key \in OwnKeys(table)
    THEN table[CHOOSE i \in 1..Len(table) : table[i].key = key].value
    ELSE InheritedValue

\* the for..of loop over Object.entries(table) returns: some entry's key is a
\* substring of licenseLower
HasPartialMatch(table, licenseLower) ==
    \E i \in 1..Len(table) : Includes(licenseLower, table[i].key)

\* the value that loop returns: the first such entry's, in insertion order
FirstPartialMatch(table, licenseLower) ==
    table[CHOOSE i \in 1..Len(table) :
             /\ Includes(licenseLower, table[i].key)
             /\ \A j \in 1..(i - 1) : ~Includes(licenseLower, table[j].key)].value

\* analyzeCommercialLicense without its two exact-match lookups
analyzeCommercialLicense_NoExactMatch(lic) ==
    IF IsFalsy(lic)
    THEN [status |-> "unknown", note |-> NoteUnavailable]
    ELSE LET licenseLower == ToLowerCase(lic) IN
         IF HasPartialMatch(freeCommercialLicenses, licenseLower)
         THEN FirstPartialMatch(freeCommercialLicenses, licenseLower)
         ELSE IF HasPartialMatch(paidCommercialLicenses, licenseLower)
         THEN FirstPartialMatch(paidCommercialLicenses, licenseLower)
         ELSE IF Includes(licenseLower, Chars("gnu"))
         THEN [status |-> "warning", note |-> NoteGnu]
         ELSE IF Includes(licenseLower, Chars("copyleft"))
         THEN [status |-> "warning", note |-> NoteCopyleftWarning]
         ELSE IF \/ Includes(licenseLower, Chars("commercial"))
                 \/ Includes(licenseLower, Chars("proprietary"))
         THEN [status |-> "paid", note |-> NoteLikelyPaid]
         ELSE [status |-> "unknown", note |-> NoteUnknown]

analyzeCommercialLicense(lic) ==
    IF IsFalsy(lic)
    THEN [status |-> "unknown", note |-> NoteUnavailable]
    ELSE LET licenseLower == ToLowerCase(lic) IN
         IF HasProperty(freeCommercialLicenses, licenseLower)
         THEN GetProperty(freeCommercialLicenses, licenseLower)
         ELSE IF HasProperty(paidCommercialLicenses, licenseLower)
         THEN GetProperty(paidCommercialLicenses, licenseLower)
         ELSE IF HasPartialMatch(freeCommercialLicenses, licenseLower)
         THEN FirstPartialMatch(freeCommercialLicenses, licenseLower)
         ELSE IF HasPartialMatch(paidCommercialLicenses, licenseLower)
         THEN FirstPartialMatch(paidCommercialLicenses, licenseLower)
         ELSE IF Includes(licenseLower, Chars("gnu"))
         THEN [status |-> "warning", note |-> NoteGnu]
         ELSE IF Includes(licenseLower, Chars("copyleft"))
         THEN [status |-> "warning", note |-> NoteCopyleftWarning]
         ELSE IF \/ Includes(licenseLower, Chars("commercial"))
                 \/ Includes(licenseLower, Chars("proprietary"))
         THEN [status |-> "paid", note |-> NoteLikelyPaid]
         ELSE [status |-> "unknown", note |-> NoteUnknown]

----------------------------------------------------------------------------
(* Manifest parsers (src/server.js 258-618)                                *)

Lines(content) == Split(content, "\n")

\* .split('==')[0].split('>=')[0].split('<=')[0].split('>')[0].split('<')[0]
StripComparators(s) ==
    SplitFirst(SplitFirst(SplitFirst(SplitFirst(SplitFirst(s,
        Chars("==")), Chars(">=")), Chars("<=")), Chars(">")), Chars("<"))

parseRequirementsTxt(content) ==
    LET trimmed == [i \in 1..Len(Lines(content)) |-> Trim(Lines(content)[i])]
        IsRequirement(line) ==
            line # <<>> /\ ~StartsWith(line, Chars("#")) /\ ~StartsWith(line, Chars("-"))
        kept == SelectSeq(trimmed, IsRequirement)
        names == [i \in 1..Len(kept) |->
                    Trim(SplitFirst(StripComparators(kept[i]), Chars("~")))]
        NonEmpty(dep) == dep # <<>>
    IN  SelectSeq(names, NonEmpty)

Quotes == {"\"", "'"}

\* the for loop of parsePipfile from line i on
RECURSIVE PipfileScan(_, _, _, _)
PipfileScan(lines, i, inPackagesSection, names) ==
    IF i > Len(lines) THEN names
    ELSE LET trimmed == Trim(lines[i]) IN
         IF trimmed = Chars("[packages]")
         THEN PipfileScan(lines, i + 1, TRUE, names)
         ELSE IF ~inPackagesSection
         THEN PipfileScan(lines, i + 1, FALSE, names)
         ELSE IF StartsWith(trimmed, Chars("["))
         THEN names
         ELSE IF /\ trimmed # <<>>
                 /\ ~StartsWith(trimmed, Chars("#"))
                 /\ Includes(trimmed, Chars("="))
         THEN LET packageName ==
                      RemoveChars(Trim(Split(trimmed, "=")[1]), Quotes)
              IN  IF packageName # <<>>
                  THEN PipfileScan(lines, i + 1, TRUE, Append(names, packageName))
                  ELSE PipfileScan(lines, i + 1, TRUE, names)
         ELSE PipfileScan(lines, i + 1, TRUE, names)

parsePipfile(content) == PipfileScan(Lines(content), 1, FALSE, <<>>)

\* /name\s*=\s*["']([^"']+)["']/ matches s with "name" at position i
NameFieldMatchesAt(s, i) ==
    /\ HasAt(s, Chars("name"), i)
    /\ LET eq == i + 4 + RunIn(s, i + 4, WhiteSpace)
           q1 == eq + 1 + RunIn(s, eq + 1, WhiteSpace)
           n  == RunNotIn(s, q1 + 1, Quotes)
       IN  /\ eq <= Len(s) /\ s[eq] = "="
           /\ q1 <= Len(s) /\ s[q1] \in Quotes
           /\ n >= 1
           /\ q1 + n + 1 <= Len(s)

\* the capture group of that match
NameFieldCapture(s, i) ==
    LET eq == i + 4 + RunIn(s, i + 4, WhiteSpace)
        q1 == eq + 1 + RunIn(s, eq + 1, WhiteSpace)
    IN  SubSeq(s, q1 + 1, q1 + RunNotIn(s, q1 + 1, Quotes))

\* s.match(/name\s*=\s*["']([^"']+)["']/): <<capture>> of the leftmost match,
\* <<>> when there is none
NameFieldMatch(s) ==
    IF \E i \in 1..Len(s) : NameFieldMatchesAt(s, i)
    THEN <<NameFieldCapture(s, CHOOSE i \in 1..Len(s) :
              /\ NameFieldMatchesAt(s, i)
              /\ \A j \in 1..(i - 1) : ~NameFieldMatchesAt(s, j))>>
    ELSE <<>>

\* the for loop shared by parseUvLock and parsePoetryLock from line i on;
\* `skipped` are the names the parser leaves out
RECURSIVE LockScan(_, _, _, _, _)
LockScan(lines, i, inPackageSection, names, skipped) ==
    IF i > Len(lines) THEN names
    ELSE LET trimmed == Trim(lines[i]) IN
         IF StartsWith(trimmed, Chars("[[package]]"))
         THEN LockScan(lines, i + 1, TRUE, names, skipped)
         ELSE IF ~inPackageSection
         THEN LockScan(lines, i + 1, FALSE, names, skipped)
         ELSE IF StartsWith(trimmed, Chars("[")) /\ ~StartsWith(trimmed, Chars("[["))
         THEN LockScan(lines, i + 1, FALSE, names, skipped)
         ELSE IF /\ StartsWith(trimmed, Chars("name ="))
                 /\ NameFieldMatch(trimmed) # <<>>
                 /\ NameFieldMatch(trimmed)[1] \notin skipped
         THEN LockScan(lines, i + 1, TRUE,
                       Append(names, NameFieldMatch(trimmed)[1]), skipped)
         ELSE LockScan(lines, i + 1, TRUE, names, skipped)

parseUvLock(content) ==
    Unique(LockScan(Lines(content), 1, FALSE, <<>>,
                    { Chars("python"), Chars("pip"), Chars("setuptools"),
                      Chars("wheel"), Chars("build") }))

parsePoetryLock(content) ==
    Unique(LockScan(Lines(content), 1, FALSE, <<>>,
                    { Chars("python"), Chars("pip") }))

\* /install_requires\s*=\s*\[([\s\S]*?)\]/ matches s with "install_requires"
\* at position i
InstallRequiresMatchesAt(s, i) ==
    /\ HasAt(s, Chars("install_requires"), i)
    /\ LET eq == i + 16 + RunIn(s, i + 16, WhiteSpace)
           br == eq + 1 + RunIn(s, eq + 1, WhiteSpace)
       IN  /\ eq <= Len(s) /\ s[eq] = "="
           /\ br <= Len(s) /\ s[br] = "["
           /\ br + RunNotIn(s, br + 1, {"]"}) + 1 <= Len(s)

\* the capture group: the text up to the first "]" after the "["
InstallRequiresCapture(s, i) ==
    LET eq == i + 16 + RunIn(s, i + 16, WhiteSpace)
        br == eq + 1 + RunIn(s, eq + 1, WhiteSpace)
    IN  SubSeq(s, br + 1, br + RunNotIn(s, br + 1, {"]"}))

\* s.match(/"([^"]+)"/g) from position p on, each match without its quotes
RECURSIVE DoubleQuoted(_, _)
DoubleQuoted(s, p) ==
    IF p > Len(s) THEN <<>>
    ELSE IF s[p] # "\"" THEN DoubleQuoted(s, p + 1)
    ELSE LET n == RunNotIn(s, p + 1, {"\""}) IN
         IF n >= 1 /\ p + n + 1 <= Len(s)
         THEN <<SubSeq(s, p + 1, p + n)>> \o DoubleQuoted(s, p + n + 2)
         ELSE DoubleQuoted(s, p + 1)

parseSetupPy(content) ==
    IF \E i \in 1..Len(content) : InstallRequiresMatchesAt(content, i)
    THEN LET at == CHOOSE i \in 1..Len(content) :
                      /\ InstallRequiresMatchesAt(content, i)
                      /\ \A j \in 1..(i - 1) : ~InstallRequiresMatchesAt(content, j)
             depMatches == DoubleQuoted(InstallRequiresCapture(content, at), 1)
             deps == [k \in 1..Len(depMatches) |-> Trim(StripComparators(depMatches[k]))]
             NonEmpty(dep) == dep # <<>>
         IN  SelectSeq(deps, NonEmpty)
    ELSE <<>>

Letters == { UpperLetters[i] : i \in 1..26 } \cup { LowerLetters[i] : i \in 1..26 }
Digits == { "0", "1", "2", "3", "4", "5", "6", "7", "8", "9" }
\* the character class [a-zA-Z0-9_-]
NameChars == Letters \cup Digits \cup { "_", "-" }

\* the clean-up chain of parsePyprojectToml: the nine split(...)[0], the
\* replace(/[{}]/g, '') and the trim
CleanDep(dep) ==
    Trim(RemoveChars(
        SplitFirst(SplitFirst(SplitFirst(SplitFirst(StripComparators(dep),
            Chars("~")), Chars("^")), Chars("*")), Chars("!")),
        {"{", "}"}))

\* s.match(/^["']([^"']+)["']/): <<capture>>, or <<>>
LeadingQuotedMatch(s) ==
    LET n == RunNotIn(s, 2, Quotes) IN
    IF Len(s) >= 1 /\ s[1] \in Quotes /\ n >= 1 /\ n + 2 <= Len(s)
    THEN <<SubSeq(s, 2, n + 1)>>
    ELSE <<>>

QuotedMatchesAt(s, i) ==
    /\ s[i] \in Quotes
    /\ RunNotIn(s, i + 1, Quotes) >= 1
    /\ i + RunNotIn(s, i + 1, Quotes) + 1 <= Len(s)

\* s.match(/["']([^"']+)["']/): <<capture>> of the leftmost match, or <<>>
QuotedMatch(s) ==
    IF \E i \in 1..Len(s) : QuotedMatchesAt(s, i)
    THEN LET at == CHOOSE i \in 1..Len(s) :
                      QuotedMatchesAt(s, i) /\ \A j \in 1..(i - 1) : ~QuotedMatchesAt(s, j)
         IN  <<SubSeq(s, at + 1, at + RunNotIn(s, at + 1, Quotes))>>
    ELSE <<>>

\* s.match(/^([^=\s]+)\s*=/): <<capture>>, or <<>>
KeyMatch(s) ==
    LET n  == RunNotIn(s, 1, WhiteSpace \cup {"="})
        eq == n + 1 + RunIn(s, n + 1, WhiteSpace)
    IN  IF n >= 1 /\ eq <= Len(s) /\ s[eq] = "="
        THEN <<SubSeq(s, 1, n)>>
        ELSE <<>>

DependencySections ==
    { Chars("[project.dependencies]"), Chars("[tool.poetry.dependencies]"),
      Chars("[build-system.requires]"), Chars("[tool.setuptools.dependencies]"),
      Chars("[dependency-groups]") }

OptionalSectionPrefixes ==
    { Chars("[project.optional-dependencies."), Chars("[tool.poetry.group."),
      Chars("[tool.poetry.extras.") }

MetadataKeys ==
    { Chars("name"), Chars("version"), Chars("description"), Chars("authors"),
      Chars("readme"), Chars("license") }

\* the name a quoted array element contributes (lines 344-372): <<name>> or <<>>
ArrayElementDep(trimmed) ==
    IF LeadingQuotedMatch(trimmed) = <<>> THEN <<>>
    ELSE LET dep == LeadingQuotedMatch(trimmed)[1] IN
         IF \/ Includes(dep, Chars(">=")) \/ Includes(dep, Chars("<="))
            \/ Includes(dep, Chars("==")) \/ Includes(dep, Chars("~"))
            \/ RunIn(dep, 1, NameChars) = Len(dep)
         THEN IF /\ CleanDep(dep) # <<>>
                 /\ CleanDep(dep) # Chars("python")
                 /\ ~StartsWith(CleanDep(dep), Chars("#"))
                 /\ CleanDep(dep) \notin MetadataKeys
              THEN <<CleanDep(dep)>>
              ELSE <<>>
         ELSE <<>>

\* the name any other line inside a section contributes (lines 382-422)
LegacyLineDep(trimmed) ==
    LET dep ==
            IF Includes(trimmed, Chars("\"")) \/ Includes(trimmed, Chars("'"))
            THEN (IF QuotedMatch(trimmed) # <<>> THEN QuotedMatch(trimmed)[1] ELSE <<>>)
            ELSE IF Includes(trimmed, Chars("=")) /\ ~Includes(trimmed, Chars("=="))
            THEN (IF KeyMatch(trimmed) # <<>> THEN Trim(KeyMatch(trimmed)[1]) ELSE <<>>)
            ELSE IF RunIn(trimmed, 1, NameChars) >= 1 THEN trimmed
            ELSE <<>>
    IN  IF /\ dep # <<>>
           /\ CleanDep(dep) # <<>>
           /\ CleanDep(dep) # Chars("python")
           /\ ~StartsWith(CleanDep(dep), Chars("#"))
        THEN <<CleanDep(dep)>>
        ELSE <<>>

IsQuotedElementLine(trimmed) ==
    \/ /\ StartsWith(trimmed, Chars("\""))
       /\ EndsWith(trimmed, Chars(",")) \/ EndsWith(trimmed, Chars("\""))
    \/ /\ StartsWith(trimmed, Chars("'"))
       /\ EndsWith(trimmed, Chars(",")) \/ EndsWith(trimmed, Chars("'"))

\* one iteration of the for loop of parsePyprojectToml: the scanner state
\* after the line `trimmed`
PyprojectLine(st, trimmed) ==
    IF trimmed \in DependencySections
    THEN [st EXCEPT !.inDependenciesSection = TRUE, !.currentSection = trimmed]
    ELSE IF trimmed = Chars("[project]")
    THEN [st EXCEPT !.currentSection = trimmed]
    ELSE IF \E pre \in OptionalSectionPrefixes : StartsWith(trimmed, pre)
    THEN [st EXCEPT !.inDependenciesSection = TRUE, !.currentSection = trimmed]
    ELSE IF StartsWith(trimmed, Chars("dependencies = ["))
    THEN [st EXCEPT !.inDependenciesSection = TRUE]
    ELSE IF StartsWith(trimmed, Chars("dev = ["))
    THEN [st EXCEPT !.inDependenciesSection = TRUE]
    ELSE IF ~st.inDependenciesSection
    THEN st
    ELSE IF StartsWith(trimmed, Chars("[")) /\ trimmed # st.currentSection
    THEN [st EXCEPT !.inDependenciesSection = FALSE]
    ELSE IF \/ trimmed = <<>>
            \/ StartsWith(trimmed, Chars("#"))
            \/ StartsWith(trimmed, Chars(";"))
    THEN st
    ELSE IF IsQuotedElementLine(trimmed)
    THEN [st EXCEPT !.dependencies = @ \o ArrayElementDep(trimmed)]
    ELSE IF trimmed = Chars("]")
    THEN [st EXCEPT !.inDependenciesSection = FALSE]
    ELSE [st EXCEPT !.dependencies = @ \o LegacyLineDep(trimmed)]

\* PyprojectScan with the ']' of a section ending the loop (a break)
RECURSIVE PyprojectScan_StopsAtBracket(_, _, _)
PyprojectScan_StopsAtBracket(lines, i, st) ==
    IF i > Len(lines) THEN st
    ELSE IF st.inDependenciesSection /\ Trim(lines[i]) = Chars("]")
    THEN [st EXCEPT !.inDependenciesSection = FALSE]
    ELSE PyprojectScan_StopsAtBracket(lines, i + 1, PyprojectLine(st, Trim(lines[i])))

\* the for loop of parsePyprojectToml from line i on
RECURSIVE PyprojectScan(_, _, _)
PyprojectScan(lines, i, st) ==
    IF i > Len(lines) THEN st
    ELSE PyprojectScan(lines, i + 1, PyprojectLine(st, Trim(lines[i])))

\* BuildTools with only the interpreter name in it
BuildTools_InterpreterOnly == { Chars("python") }

BuildTools ==
    { Chars("python"), Chars("setuptools"), Chars("wheel"), Chars("build"), Chars("pip") }

parsePyprojectToml(content) ==
    LET final == PyprojectScan(Lines(content), 1,
                     [inDependenciesSection |-> FALSE,
                      currentSection |-> <<>>,
                      dependencies |-> <<>>])
        Kept(dep) == dep # <<>> /\ dep \notin BuildTools
    IN  SelectSeq(Unique(final.dependencies), Kept)

\* The yaml package's parse and JSON.parse are library functions: the model
\* gives their result on the documents it uses.  A parsed YAML value is null,
\* a mapping (with or without a dependencies sequence) or a thrown error; an
\* element of the sequence is a string or a nested mapping.
YamlString(s) == [kind |-> "string", value |-> Chars(s)]
YamlMap == [kind |-> "map", value |-> <<>>]

YamlDocuments ==
    << [text |-> Chars("name: env\ndependencies:\n  - python=3.9\n  - numpy>=1.21\n  - pip:\n    - requests\n"),
        parsed |-> [kind |-> "map", hasDependencies |-> TRUE,
                    dependencies |-> << YamlString("python=3.9"),
                                        YamlString("numpy>=1.21"), YamlMap >>]],
       [text |-> Chars("dependencies:\n  - python\n  - pandas=1.5\n  - scipy\n"),
        parsed |-> [kind |-> "map", hasDependencies |-> TRUE,
                    dependencies |-> << YamlString("python"),
                                        YamlString("pandas=1.5"),
                                        YamlString("scipy") >>]],
       [text |-> Chars("dependencies:\n  - python=3.9\n"),
        parsed |-> [kind |-> "map", hasDependencies |-> TRUE,
                    dependencies |-> << YamlString("python=3.9") >>]],
       [text |-> Chars("name: env\nchannels:\n  - defaults\n"),
        parsed |-> [kind |-> "map", hasDependencies |-> FALSE, dependencies |-> <<>>]],
       [text |-> Chars("# nothing\n"),
        parsed |-> [kind |-> "null", hasDependencies |-> FALSE, dependencies |-> <<>>]],
       [text |-> Chars("dependencies: [numpy\n"),
        parsed |-> [kind |-> "error", hasDependencies |-> FALSE, dependencies |-> <<>>]] >>

parseYaml(text) ==
    YamlDocuments[CHOOSE i \in 1..Len(YamlDocuments) : YamlDocuments[i].text = text].parsed

\* dep.split('=')[0].split('>=')[0].split('<=')[0].split('>')[0].split('<')[0].trim()
StripCondaVersion(dep) ==
    Trim(SplitFirst(SplitFirst(SplitFirst(SplitFirst(SplitFirst(dep,
        Chars("=")), Chars(">=")), Chars("<=")), Chars(">")), Chars("<")))

parseEnvironmentYml(content) ==
    LET yamlData == parseYaml(content)
        Pushed(dep) == dep.kind = "string" /\ dep.value # Chars("python")
        kept == SelectSeq(yamlData.dependencies, Pushed)
    IN  IF yamlData.kind = "map" /\ yamlData.hasDependencies
        THEN [i \in 1..Len(kept) |-> StripCondaVersion(kept[i].value)]
        ELSE <<>>   \* no dependencies key, or the catch block

\* A parsed JSON value is an object (with the keys of its "default" member, in
\* order, when it has one), null, or a thrown SyntaxError.
JsonDocuments ==
    << [text |-> Chars("{\"default\": {\"requests\": {}, \"python\": {}, \"numpy\": {}}, \"develop\": {\"pytest\": {}}}"),
        parsed |-> [kind |-> "object", hasDefault |-> TRUE,
                    defaultKeys |-> << Chars("requests"), Chars("python"), Chars("numpy") >>]],
       [text |-> Chars("{\"default\": {\"flask\": {}}}"),
        parsed |-> [kind |-> "object", hasDefault |-> TRUE,
                    defaultKeys |-> << Chars("flask") >>]],
       [text |-> Chars("{\"_meta\": {}}"),
        parsed |-> [kind |-> "object", hasDefault |-> FALSE, defaultKeys |-> <<>>]],
       [text |-> Chars("null"),
        parsed |-> [kind |-> "null", hasDefault |-> FALSE, defaultKeys |-> <<>>]],
       [text |-> Chars("{\"default\": "),
        parsed |-> [kind |-> "error", hasDefault |-> FALSE, defaultKeys |-> <<>>]] >>

JsonParse(text) ==
    JsonDocuments[CHOOSE i \in 1..Len(JsonDocuments) : JsonDocuments[i].text = text].parsed

parsePipfileLock(content) ==
    LET lockData == JsonParse(content)
        NotPython(packageName) == packageName # Chars("python")
    IN  IF lockData.kind = "object" /\ lockData.hasDefault
        THEN SelectSeq(lockData.defaultKeys, NotPython)
        ELSE <<>>   \* no default member, or the catch block

\* response.data that is not a string: a body that axios has already parsed
\* as JSON.  Every parser raises on it (split, match, JSON.parse).
ParsedBody == <<"[object Object]">>

\* dependencyFiles with pyproject.toml tried before requirements.txt
FileNames_PyprojectFirst ==
    << "pyproject.toml", "requirements.txt", "uv.lock", "poetry.lock",
       "Pipfile.lock", "setup.py", "environment.yml", "Pipfile" >>

FileNames ==
    << "requirements.txt", "pyproject.toml", "uv.lock", "poetry.lock",
       "Pipfile.lock", "setup.py", "environment.yml", "Pipfile" >>

\* parseDependencies with the plain-list parser as the default case
parseDependencies_DefaultIsPlainList(content, fileName) ==
    IF content = ParsedBody THEN <<>>
    ELSE CASE fileName = "pyproject.toml" -> parsePyprojectToml(content)
           [] fileName = "uv.lock" -> parseUvLock(content)
           [] fileName = "poetry.lock" -> parsePoetryLock(content)
           [] fileName = "Pipfile.lock" -> parsePipfileLock(content)
           [] fileName = "setup.py" -> parseSetupPy(content)
           [] fileName = "environment.yml" -> parseEnvironmentYml(content)
           [] fileName = "Pipfile" -> parsePipfile(content)
           [] OTHER -> parseRequirementsTxt(content)

parseDependencies(content, fileName) ==
    IF content = ParsedBody THEN <<>>       \* the catch block
    ELSE CASE fileName = "requirements.txt" -> parseRequirementsTxt(content)
           [] fileName = "pyproject.toml" -> parsePyprojectToml(content)
           [] fileName = "uv.lock" -> parseUvLock(content)
           [] fileName = "poetry.lock" -> parsePoetryLock(content)
           [] fileName = "Pipfile.lock" -> parsePipfileLock(content)
           [] fileName = "setup.py" -> parseSetupPy(content)
           [] fileName = "environment.yml" -> parseEnvironmentYml(content)
           [] fileName = "Pipfile" -> parsePipfile(content)
           [] OTHER -> <<>>

\* parseDependencies is not called
NoManifest == [fileName |-> "", content |-> <<>>]
NotParsed == [done |-> FALSE, names |-> <<>>]

ParseIdle == manifest = NoManifest /\ parsed = NotParsed

----------------------------------------------------------------------------
(* fetchPackageLicense (src/server.js 751-805)                             *)

\* s.split(sep)[1] for a string s that contains sep
SecondSegment(s, sep) ==
    LET rest == SubSeq(s, IndexOf(s, sep) + Len(sep), Len(s))
    IN  SplitFirst(rest, sep)

\* s.replace(/^prefix/, '')
RemovePrefix(s, prefix) ==
    IF StartsWith(s, prefix) THEN SubSeq(s, Len(prefix) + 1, Len(s)) ELSE s

MaxLicenseLength == 50

\* the clean-up of a truthy license string (lines 772-791)
CleanLicense(raw) ==
    LET stripped == Trim(RemovePrefix(RemovePrefix(RemovePrefix(raw,
                        Chars("License :: ")), Chars("License: ")), Chars("License")))
        l1 == IF Includes(stripped, Chars("MIT License")) THEN Chars("MIT") ELSE stripped
        l2 == IF Includes(l1, Chars("Apache License")) THEN Chars("Apache 2.0") ELSE l1
        l3 == IF Includes(l2, Chars("BSD License")) THEN Chars("BSD") ELSE l2
        l4 == IF Includes(l3, Chars("GNU General Public License")) THEN Chars("GPL") ELSE l3
        l5 == IF Includes(l4, Chars("Mozilla Public License")) THEN Chars("MPL") ELSE l4
    IN  IF Len(l5) > MaxLicenseLength
        THEN SubSeq(l5, 1, MaxLicenseLength - 3) \o Chars("...")
        ELSE l5

\* classifiers?.find(c => c.startsWith('License :: '))?.split(':: ')[1]
ClassifierLicense(classifiers) ==
    IF \E i \in 1..Len(classifiers) : StartsWith(classifiers[i], Chars("License :: "))
    THEN SecondSegment(
             classifiers[CHOOSE i \in 1..Len(classifiers) :
                 /\ StartsWith(classifiers[i], Chars("License :: "))
                 /\ \A j \in 1..(i - 1) : ~StartsWith(classifiers[j], Chars("License :: "))],
             Chars(":: "))
    ELSE Undefined

\* a || b
OrElse(a, b) == IF IsFalsy(a) THEN b ELSE a

\* The answers of the package index.  status 0 stands for no HTTP answer at
\* all (network error, timeout); info holds the fields the function reads.
PyPIInfo(lic, text, classifiers) ==
    [license |-> lic, license_text |-> text, classifiers |-> classifiers]

PyPIAnswer(status, error, info) == [status |-> status, error |-> error, info |-> info]

NoInfo == PyPIInfo(Null, Null, <<>>)

OkAnswer(lic) == PyPIAnswer(200, "", PyPIInfo(Chars(lic), Null, <<>>))
ClassifierAnswer(c) ==
    PyPIAnswer(200, "", PyPIInfo(Chars(""), Null,
                   << Chars("Programming Language :: Python"), Chars(c) >>))

\* what the package index can answer for a name: at least one answer that
\* carries a license and one failure each
PyPIResponses(depName) ==
    CASE depName = Chars("requests") ->
            { OkAnswer("Apache 2.0"), OkAnswer("MIT License"),
              PyPIAnswer(0, "Network Error", NoInfo) }
      [] depName = Chars("numpy") ->
            { OkAnswer("BSD"), ClassifierAnswer("License :: OSI Approved :: BSD License"),
              PyPIAnswer(404, "", NoInfo) }
      [] depName = Chars("pandas") ->
            { OkAnswer("GNU General Public License v3 (GPLv3)"),
              PyPIAnswer(200, "", NoInfo),
              PyPIAnswer(500, "", NoInfo) }
      [] depName = Chars("flask") ->
            { OkAnswer("Custom License"), OkAnswer("GNU LGPL"),
              PyPIAnswer(0, "timeout of 5000ms exceeded", NoInfo) }
      [] depName = Chars("django") ->
            { OkAnswer("License: Proprietary - see the vendor agreement for the terms of use"),
              OkAnswer("constructor"),
              PyPIAnswer(429, "", NoInfo) }
      [] depName = Chars("gpl-package") ->
            { OkAnswer("GPL"), PyPIAnswer(404, "", NoInfo) }
      [] OTHER ->
            { OkAnswer("MIT"), PyPIAnswer(404, "", NoInfo),
              PyPIAnswer(0, "Network Error", NoInfo) }

\* the value the promise of fetchPackageLicense is fulfilled with; the catch
\* block turns every failure into null, so the promise is never rejected
fetchPackageLicense(answer) ==
    IF answer.status = 200
    THEN LET raw == OrElse(answer.info.license,
                      OrElse(answer.info.license_text,
                        OrElse(ClassifierLicense(answer.info.classifiers), Null)))
         IN  IF IsFalsy(raw) THEN raw ELSE CleanLicense(raw)
    ELSE Null

----------------------------------------------------------------------------
(* The request: the tools/call handler (src/server.js 54-80) and            *)
(* getPythonDependencies (83-226)                                          *)

\* githubUrl.match(/github\.com\/([^\/]+)\/([^\/]+)/) with "github.com/" at i
UrlMatchesAt(url, i) ==
    /\ HasAt(url, Chars("github.com/"), i)
    /\ LET o == RunNotIn(url, i + 11, {"/"})
       IN  /\ o >= 1
           /\ i + 11 + o <= Len(url)            \* the "/" after the owner
           /\ RunNotIn(url, i + 12 + o, {"/"}) >= 1

\* UrlMatch for the pattern /github\.com\/([^\/]+)/ : the repository part is
\* not required
UrlMatch_OwnerOnly(url) ==
    IF \E i \in 1..Len(url) :
          HasAt(url, Chars("github.com/"), i) /\ RunNotIn(url, i + 11, {"/"}) >= 1
    THEN LET at == CHOOSE i \in 1..Len(url) :
                      HasAt(url, Chars("github.com/"), i) /\ RunNotIn(url, i + 11, {"/"}) >= 1
             o  == RunNotIn(url, at + 11, {"/"})
         IN  << SubSeq(url, at + 11, at + 10 + o),
                SubSeq(url, at + 12 + o, at + 11 + o + RunNotIn(url, at + 12 + o, {"/"})) >>
    ELSE <<>>

\* <<owner, repo>> of the leftmost match, <<>> for null
UrlMatch(url) ==
    IF \E i \in 1..Len(url) : UrlMatchesAt(url, i)
    THEN LET at == CHOOSE i \in 1..Len(url) :
                      UrlMatchesAt(url, i) /\ \A j \in 1..(i - 1) : ~UrlMatchesAt(url, j)
             o  == RunNotIn(url, at + 11, {"/"})
             r  == RunNotIn(url, at + 12 + o, {"/"})
         IN  << SubSeq(url, at + 11, at + 10 + o),
                SubSeq(url, at + 12 + o, at + 11 + o + r) >>
    ELSE <<>>

\* repo.replace(/\.git$/, '')
RemoveGitSuffix(r) ==
    IF EndsWith(r, Chars(".git")) THEN SubSeq(r, 1, Len(r) - 4) ELSE r

\* values of params.arguments.github_url that are no strings
ANumber == <<"123">>
AnObject == <<"{url}">>

\* typeof github_url === 'string'
IsString(v) == v \notin {Null, Undefined, ANumber, AnObject}

\* !github_url || typeof github_url !== 'string'
UrlArgumentRejected(github_url) == IsFalsy(github_url) \/ ~IsString(github_url)

\* params.arguments: undefined, null, or an object whose github_url member is
\* Undefined when it is missing
NoArguments == [kind |-> "undefined", github_url |-> Undefined]
NullArguments == [kind |-> "null", github_url |-> Undefined]
Arguments(v) == [kind |-> "object", github_url |-> v]

\* const { github_url } = args raises a TypeError
DestructureThrows(args) == args.kind \in {"undefined", "null"}

MsgUrlRequired == "GitHub URL is required and must be a string"
MsgCannotDestructure == "Cannot destructure property 'github_url' of 'args'"
MsgUnknownTool == "Unknown tool: "
MsgFailedToGet == "Failed to get dependencies: "
MsgErrorFetching == "Error fetching dependencies: "
MsgInvalidUrl == "Invalid GitHub URL format"

\* A result of getPythonDependencies: kind "none" while it runs, "error" for a
\* rejection (message: the parts of the text), else the returned text:
\* "noFiles" (searched: the names listed), "empty" or "report" (the four
\* category sections, each the records it lists, in order).
NoSections == [free |-> <<>>, warning |-> <<>>, paid |-> <<>>, unknown |-> <<>>]

Result(kind, message, file, searched, sections) ==
    [kind |-> kind, message |-> message, foundFile |-> file,
     searched |-> searched, sections |-> sections]

NoResult == Result("none", <<>>, "", <<>>, NoSections)

\* A response of the handler: kind "none", "error" (message) or "content"
\* (the text is depsResult).
Response(kind, message) == [kind |-> kind, message |-> message]

NoResponse == Response("none", <<>>)
\* the answer `resp` to the fetch of `file` on `branch`
Answered(file, branch, resp) ==
    [file |-> file, branch |-> branch, status |-> resp.status, data |-> resp.data]

NoManifestAnswer == [file |-> "", branch |-> "", status |-> -1, data |-> <<>>]
NoRepo == [owner |-> <<>>, repoName |-> <<>>]

batchSize == 5

\* batch = dependencies.slice(i, i + batchSize), as indices
BatchIndices(deps, start) ==
    { i \in 1..Len(deps) : start <= i /\ i < start + batchSize }

Pending == PyPIAnswer(-1, "pending", NoInfo)

\* BatchNames with every batch looking up the whole list again
BatchNames_WholeList(deps, start) == deps

\* batch.map(depName => this.fetchPackageLicense(depName)) issues the lookups
\* of the batch, in order
BatchNames(deps, start) ==
    SubSeq(deps, start, IF start + batchSize - 1 < Len(deps)
                        THEN start + batchSize - 1 ELSE Len(deps))

\* MainOutcome with the catch block trying master after any failure
MainOutcome_MasterOnAnyError(resp) ==
    IF resp.status = 200
    THEN (IF ~IsFalsy(resp.data) THEN "found" ELSE "next")
    ELSE "master"

\* MainOutcome with a 200 answer selecting the candidate whatever its body
MainOutcome_EmptyBodyIsFound(resp) ==
    IF resp.status = 200 THEN "found"
    ELSE IF resp.status = 404 THEN "master"
    ELSE "next"

\* the if/catch around the fetch on main (lines 112-151): the manifest is
\* found, the master branch is tried, or the loop goes on to the next name
MainOutcome(resp) ==
    IF resp.status = 200
    THEN (IF ~IsFalsy(resp.data) THEN "found" ELSE "next")
    ELSE IF resp.status = 404 THEN "master"
    ELSE "next"

\* the if/catch around the fetch on master (lines 131-149)
MasterOutcome(resp) ==
    IF resp.status = 200 /\ ~IsFalsy(resp.data) THEN "found" ELSE "next"

\* LoopOutcome with the two checks in the other order
LoopOutcome_EmptyCheckedFirst(file, deps) ==
    IF Len(deps) = 0 THEN "empty"
    ELSE IF file = "" THEN "noFiles"
    ELSE "licenses"

\* LoopOutcome without the dependencies.length check
LoopOutcome_NoEmptyCheck(file, deps) ==
    IF file = "" THEN "noFiles" ELSE "licenses"

\* what follows the loop (lines 154-164); file is "" for a null foundFile
LoopOutcome(file, deps) ==
    IF file = "" THEN "noFiles"
    ELSE IF Len(deps) = 0 THEN "empty"
    ELSE "licenses"

\* the record pushed for name i of the batch (lines 631-649); the promise of
\* fetchPackageLicense is always fulfilled
LicenseRecord(depName, answer) ==
    [name |-> depName,
     license |-> fetchPackageLicense(answer),
     commercialUse |-> analyzeCommercialLicense(fetchPackageLicense(answer))]

\* BatchRecords with one failed lookup degrading the whole batch, as the
\* catch block of lines 650-660 does
BatchRecords_FailureDegradesBatch(deps, start, results) ==
    IF \E k \in BatchIndices(deps, start) : results[k].status # 200
    THEN [k \in 1..Len(BatchNames(deps, start)) |->
            [name |-> deps[start + k - 1], license |-> Null,
             commercialUse |-> [status |-> "unknown", note |-> NoteUnavailable]]]
    ELSE [k \in 1..Len(BatchNames(deps, start)) |->
            LicenseRecord(deps[start + k - 1], results[start + k - 1])]

\* BatchRecords with the records pushed as the lookups come back, the failed
\* ones after the answered ones
BatchRecords_FailedLast(deps, start, results) ==
    LET idx == [k \in 1..Len(BatchNames(deps, start)) |-> start + k - 1]
        Ok(i) == results[i].status = 200
        Failed(i) == results[i].status # 200
        order == SelectSeq(idx, Ok) \o SelectSeq(idx, Failed)
    IN  [k \in 1..Len(order) |-> LicenseRecord(deps[order[k]], results[order[k]])]

\* batchResults.forEach(...): the records of the batch, in batch order
BatchRecords(deps, start, results) ==
    [k \in 1..Len(BatchNames(deps, start)) |->
        LicenseRecord(deps[start + k - 1], results[start + k - 1])]

\* i + batchSize < dependencies.length, for the 1-based start
HasNextBatch(deps, start) == start - 1 + batchSize < Len(deps)

\* lines 166-221: the records, filtered into the four sections
BuildReport(file, records) ==
    LET Free(dep) == dep.commercialUse.status = "free"
        Paid(dep) == dep.commercialUse.status = "paid"
        Warning(dep) == dep.commercialUse.status = "warning"
        Unknown(dep) == dep.commercialUse.status = "unknown"
    IN  Result("report", <<>>, file, <<>>,
               [free |-> SelectSeq(records, Free),
                warning |-> SelectSeq(records, Warning),
                paid |-> SelectSeq(records, Paid),
                unknown |-> SelectSeq(records, Unknown)])

\* the handler's answer to a settled getPythonDependencies (lines 64-76)
HandlerAnswer(result) ==
    IF result.kind = "error"
    THEN Response("error", <<MsgFailedToGet>> \o result.message)
    ELSE Response("content", <<>>)

\* getPythonDependencies settles with `result`, and the handler with it
Settle(result) ==
    /\ depsResult' = result
    /\ response' = HandlerAnswer(result)
    /\ pc' = "done"

\* the code after the loop, run with foundFile = file and dependencies = deps
AfterLoop(file, deps) ==
    /\ foundFile' = file
    /\ dependencies' = deps
    /\ dependenciesWithLicenses' = <<>>
    /\ IF LoopOutcome(file, deps) = "noFiles"
       THEN /\ Settle(Result("noFiles", <<>>, "", FileNames, NoSections))
            /\ UNCHANGED <<batchStart, lookupResult, lookupLog>>
       ELSE IF LoopOutcome(file, deps) = "empty"
       THEN /\ Settle(Result("empty", <<>>, file, <<>>, NoSections))
            /\ UNCHANGED <<batchStart, lookupResult, lookupLog>>
       ELSE \* fetchLicenseInformation starts its first batch
            /\ batchStart' = 1
            /\ lookupResult' = [i \in 1..Len(deps) |-> Pending]
            /\ lookupLog' = BatchNames(deps, 1)
            /\ pc' = "lookups"
            /\ UNCHANGED <<depsResult, response>>

\* axios.get of candidate idx on the main branch
FetchMain(idx) ==
    /\ fileIdx' = idx
    /\ fetchLog' = Append(fetchLog, [file |-> FileNames[idx], branch |-> "main"])
    /\ pc' = "fetchMain"

\* the loop goes on after candidate fileIdx: the next candidate, or the end
Continue ==
    IF fileIdx < Len(FileNames)
    THEN /\ FetchMain(fileIdx + 1)
         /\ UNCHANGED <<foundFile, dependencies, dependenciesWithLicenses,
                        batchStart, lookupResult, lookupLog, depsResult, response>>
    ELSE /\ AfterLoop("", <<>>)
         /\ UNCHANGED <<fileIdx, fetchLog>>

\* the bodies the hosting service can answer with, per candidate name
MaxDeps == 6

PackageNames ==
    << Chars("requests"), Chars("numpy"), Chars("pandas"), Chars("flask"),
       Chars("django"), Chars("scipy"), Chars("pytest"), Chars("black"),
       Chars("click"), Chars("jinja2") >>

\* xs.join('\n')
RECURSIVE JoinLines(_)
JoinLines(xs) ==
    IF xs = <<>> THEN <<>>
    ELSE IF Len(xs) = 1 THEN xs[1]
    ELSE xs[1] \o Chars("\n") \o JoinLines(Tail(xs))

\* a requirements.txt that lists MaxDeps packages: more than one batch
LongRequirements == JoinLines(SubSeq(PackageNames, 1, MaxDeps))

Contents(fileName) ==
    CASE fileName = "requirements.txt" ->
            { Chars("requests==2.28.0\nnumpy\n# comment"),
              Chars("# No dependencies\n# Just comments"),
              LongRequirements }
      [] fileName = "pyproject.toml" ->
            { Chars("[project]\ndependencies = [\n  \"gpl-package\",\n  \"python\",\n]"),
              Chars("[project]\ndependencies = [\"numpy>=1.21.0\"]") }
      [] fileName = "uv.lock" ->
            { Chars("version = 1\n[[package]]\nname = \"requests\"\n[[package]]\nname = \"pip\"") }
      [] fileName = "poetry.lock" ->
            { Chars("[[package]]\nname = \"flask\"\nversion = \"2.0\"") }
      [] fileName = "Pipfile.lock" ->
            { JsonDocuments[2].text, JsonDocuments[3].text, ParsedBody }
      [] fileName = "setup.py" ->
            { Chars("setup(install_requires=[\"requests>=2.0\"])"),
              Chars("setup(name=\"x\")") }
      [] fileName = "environment.yml" ->
            { YamlDocuments[3].text, YamlDocuments[4].text }
      [] fileName = "Pipfile" ->
            { Chars("[packages]\nrequests = \"*\"\n[dev-packages]\npytest = \"*\"") }

ManifestAnswer(status, data) == [status |-> status, data |-> data]

\* The answers to a manifest fetch: 200 with a body (possibly empty), 404,
\* another HTTP error, or no HTTP answer at all (status 0: network error,
\* timeout).
ManifestResponses(fileName) ==
    { ManifestAnswer(200, c) : c \in Contents(fileName) \cup { Chars("") } } \cup
    { ManifestAnswer(s, Chars("")) : s \in {404, 500, 403, 0} }

Urls ==
    { Chars("https://github.com/user/repo"),
      Chars("https://github.com/user/repo.git"),
      Chars("https://gitlab.com/user/repo"),
      Chars("https://github.com/user"),
      Chars("https://github.com//repo"),
      Chars("not-a-url") }

Requests ==
    { [name |-> "list_dependencies", args |-> a] :
        a \in { NoArguments, NullArguments } \cup
              { Arguments(v) : v \in {Undefined, Null, Chars(""), ANumber, AnObject} \cup Urls } }
    \cup { [name |-> "unknown_tool", args |-> Arguments(Chars("https://github.com/user/repo"))] }

\* the request variables before any request is handled
RequestFresh ==
    /\ pc = "idle"
    /\ repo = NoRepo
    /\ fileIdx = 0
    /\ foundFile = ""
    /\ dependencies = <<>>
    /\ fetchLog = <<>>
    /\ lastResponse = NoManifestAnswer
    /\ sawFailure = FALSE
    /\ sawEmptyBody = FALSE
    /\ batchStart = 0
    /\ lookupResult = <<>>
    /\ lookupLog = <<>>
    /\ dependenciesWithLicenses = <<>>
    /\ depsResult = NoResult
    /\ response = NoResponse
    /\ outOfOrder = FALSE

\* the locals of a call of the handler that has not started: those of
\* getPythonDependencies (lines 108-109) and of fetchLicenseInformation
\* (line 621) are created by the call itself
FreshWorkingSet(req) ==
    [request |-> req, pc |-> "idle", repo |-> NoRepo, fileIdx |-> 0,
     foundFile |-> "", dependencies |-> <<>>, fetchLog |-> <<>>,
     lastResponse |-> NoManifestAnswer, sawFailure |-> FALSE,
     sawEmptyBody |-> FALSE, batchStart |-> 0, lookupResult |-> <<>>,
     lookupLog |-> <<>>, dependenciesWithLicenses |-> <<>>,
     depsResult |-> NoResult, response |-> NoResponse, outOfOrder |-> FALSE]

\* no second request
NoPeer == FreshWorkingSet([name |-> "", args |-> NoArguments])

\* no request is handled at all
RequestIdle ==
    /\ request = NoPeer.request
    /\ RequestFresh
    /\ suspended = NoPeer

Init ==
    /\ request \in Requests
    /\ RequestFresh
    /\ suspended = NoPeer
    /\ license = Null
    /\ analysis = <<>>
    /\ ParseIdle

\* The handler runs up to its first await: it validates the arguments, calls
\* getPythonDependencies, which parses the URL and issues the first fetch.
CallTool ==
    /\ pc = "idle"
    /\ UNCHANGED <<classifyVars, parseVars, suspended, outOfOrder, request, lastResponse,
                 sawFailure, sawEmptyBody>>
    /\ IF request.name # "list_dependencies"
       THEN /\ response' = Response("error", <<MsgUnknownTool, request.name>>)
            /\ pc' = "done"
            /\ UNCHANGED <<repo, fileIdx, foundFile, dependencies, fetchLog,
                           batchStart, lookupResult, lookupLog,
                           dependenciesWithLicenses, depsResult>>
       ELSE IF DestructureThrows(request.args)
       THEN /\ response' = Response("error", <<MsgCannotDestructure>>)
            /\ pc' = "done"
            /\ UNCHANGED <<repo, fileIdx, foundFile, dependencies, fetchLog,
                           batchStart, lookupResult, lookupLog,
                           dependenciesWithLicenses, depsResult>>
       ELSE IF UrlArgumentRejected(request.args.github_url)
       THEN /\ response' = Response("error", <<MsgUrlRequired>>)
            /\ pc' = "done"
            /\ UNCHANGED <<repo, fileIdx, foundFile, dependencies, fetchLog,
                           batchStart, lookupResult, lookupLog,
                           dependenciesWithLicenses, depsResult>>
       ELSE IF UrlMatch(request.args.github_url) = <<>>
       THEN /\ Settle(Result("error", <<MsgErrorFetching, MsgInvalidUrl>>,
                             "", <<>>, NoSections))
            /\ UNCHANGED <<repo, fileIdx, foundFile, dependencies, fetchLog,
                           batchStart, lookupResult, lookupLog,
                           dependenciesWithLicenses>>
       ELSE /\ repo' = [owner |-> UrlMatch(request.args.github_url)[1],
                        repoName |-> RemoveGitSuffix(UrlMatch(request.args.github_url)[2])]
            /\ FetchMain(1)
            /\ UNCHANGED <<foundFile, dependencies, batchStart, lookupResult,
                           lookupLog, dependenciesWithLicenses, depsResult, response>>

IsFailure(resp) == resp.status \notin {200, 404}
IsEmptyBody(resp) == resp.status = 200 /\ IsFalsy(resp.data)

\* the fetch on main is answered
MainResponds ==
    /\ pc = "fetchMain"
    /\ \E resp \in ManifestResponses(FileNames[fileIdx]) :
        /\ lastResponse' = Answered(FileNames[fileIdx], "main", resp)
        /\ sawFailure' = (sawFailure \/ IsFailure(resp))
        /\ sawEmptyBody' = (sawEmptyBody \/ IsEmptyBody(resp))
        /\ UNCHANGED <<classifyVars, parseVars, suspended, outOfOrder, request, repo>>
        /\ IF MainOutcome(resp) = "found"
           THEN /\ AfterLoop(FileNames[fileIdx],
                             parseDependencies(resp.data, FileNames[fileIdx]))
                /\ UNCHANGED <<fileIdx, fetchLog>>
           ELSE IF MainOutcome(resp) = "master"
           THEN /\ fetchLog' = Append(fetchLog,
                                  [file |-> FileNames[fileIdx], branch |-> "master"])
                /\ pc' = "fetchMaster"
                /\ UNCHANGED <<fileIdx, foundFile, dependencies, batchStart,
                               lookupResult, lookupLog, dependenciesWithLicenses,
                               depsResult, response>>
           ELSE Continue

\* the fetch on master is answered
MasterResponds ==
    /\ pc = "fetchMaster"
    /\ \E resp \in ManifestResponses(FileNames[fileIdx]) :
        /\ lastResponse' = Answered(FileNames[fileIdx], "master", resp)
        /\ sawFailure' = (sawFailure \/ IsFailure(resp))
        /\ sawEmptyBody' = (sawEmptyBody \/ IsEmptyBody(resp))
        /\ UNCHANGED <<classifyVars, parseVars, suspended, outOfOrder, request, repo>>
        /\ IF MasterOutcome(resp) = "found"
           THEN /\ AfterLoop(FileNames[fileIdx],
                             parseDependencies(resp.data, FileNames[fileIdx]))
                /\ UNCHANGED <<fileIdx, fetchLog>>
           ELSE Continue

\* InFlight with only the first lookup of the batch awaited
InFlight_FirstOnly ==
    { i \in BatchIndices(dependencies, batchStart) :
        i = batchStart /\ lookupResult[i] = Pending }

\* the indices of the batch whose lookup has not settled
InFlight == { i \in BatchIndices(dependencies, batchStart) : lookupResult[i] = Pending }

\* one lookup of the batch settles
LookupSettles ==
    /\ pc = "lookups"
    /\ \E i \in InFlight :
          /\ \E answer \in PyPIResponses(dependencies[i]) :
                lookupResult' = [lookupResult EXCEPT ![i] = answer]
          /\ outOfOrder' = (outOfOrder \/ \E j \in InFlight : j < i)
    /\ UNCHANGED <<classifyVars, parseVars, suspended, request, pc, repo, fileIdx, foundFile, dependencies,
                   fetchLog, lastResponse, sawFailure, sawEmptyBody, batchStart, lookupLog,
                   dependenciesWithLicenses, depsResult, response>>

\* Promise.allSettled is fulfilled: the records of the batch are pushed, then
\* the pause starts or fetchLicenseInformation returns and the report is built
BatchSettled ==
    /\ pc = "lookups"
    /\ InFlight = {}
    /\ dependenciesWithLicenses' =
          dependenciesWithLicenses \o BatchRecords(dependencies, batchStart, lookupResult)
    /\ IF HasNextBatch(dependencies, batchStart)
       THEN /\ pc' = "pause"
            /\ UNCHANGED <<depsResult, response>>
       ELSE Settle(BuildReport(foundFile, dependenciesWithLicenses'))
    /\ UNCHANGED <<classifyVars, parseVars, suspended, outOfOrder, request, repo, fileIdx,
                   foundFile, dependencies, fetchLog, lastResponse, sawFailure,
                   sawEmptyBody, batchStart, lookupResult, lookupLog>>

\* the 200 ms timer fires: the next batch starts
PauseElapsed ==
    /\ pc = "pause"
    /\ batchStart' = batchStart + batchSize
    /\ lookupLog' = lookupLog \o BatchNames(dependencies, batchStart + batchSize)
    /\ pc' = "lookups"
    /\ UNCHANGED <<classifyVars, parseVars, suspended, outOfOrder, request, repo, fileIdx,
                   foundFile, dependencies, fetchLog, lastResponse, sawFailure,
                   sawEmptyBody, lookupResult, dependenciesWithLicenses, depsResult,
                   response>>

Next ==
    \/ CallTool
    \/ MainResponds
    \/ MasterResponds
    \/ LookupSettles
    \/ BatchSettled
    \/ PauseElapsed

Spec == Init /\ [][Next]_vars

\* Every outbound call eventually answers or fails (axios is given a timeout:
\* lines 116-121, 135-140, 757-762), the timer of line 664 fires, and the
\* event loop runs every continuation that is ready.
\* The last conjunct is WF_vars(BatchSettled) with its ENABLED written out:
\* the step is possible exactly when the batch is awaited and no lookup of it
\* is unsettled.
SpecLive ==
    /\ Spec
    /\ WF_vars(CallTool)
    /\ WF_vars(MainResponds)
    /\ WF_vars(MasterResponds)
    /\ WF_vars(LookupSettles)
    /\ WF_vars(PauseElapsed)
    /\ \/ []<>~(pc = "lookups" /\ InFlight = {})
       \/ []<><<BatchSettled>>_vars

----------------------------------------------------------------------------
(* SpecClassify: analyzeCommercialLicense applied to one input, MaxCalls   *)
(* times                                                                   *)

MaxCalls == 2

LicenseInputs ==
    { Null, Undefined, Chars("") } \cup
    \* the table keys as written, and in the letter case of the tests
    OwnKeys(freeCommercialLicenses) \cup OwnKeys(paidCommercialLicenses) \cup
    { Chars("MIT"), Chars("Mit"), Chars("Apache 2.0"), Chars("Apache-2.0"),
      Chars("BSD"), Chars("BSD-3-Clause"), Chars("BSD-2-Clause"), Chars("ISC"),
      Chars("MPL"), Chars("Mozilla Public License"), Chars("Unlicense"),
      Chars("CC0"), Chars("Zlib"), Chars("OSI Approved"),
      Chars("GPL"), Chars("Gpl"), Chars("GPLv2"), Chars("GPLv3"),
      Chars("GPL-2.0"), Chars("GPL-3.0"), Chars("AGPL"), Chars("AGPLv3"),
      Chars("Copyleft"), Chars("Commercial"), Chars("Proprietary"),
      Chars("Trial"), Chars("Evaluation") } \cup
    \* strings that contain keys
    { Chars("MIT License"), Chars("Apache License 2.0"), Chars("GPL v3"),
      Chars("GNU GPL"), Chars("GNU General Public License"),
      Chars("GNU Lesser General Public License"), Chars("Copyleft License"),
      Chars("LGPL"), Chars("Commercial License"), Chars("Proprietary License"),
      Chars("Non-Commercial"), Chars("MIT or GPL"), Chars("BSD-3-Clause AND GPL-2.0"),
      Chars("Dual License: Commercial / AGPLv3"), Chars("gnu"), Chars("GNU") } \cup
    \* strings that contain no key
    { Chars("Custom License"), Chars("Internal License"), Chars("Special License"),
      Chars("UNKNOWN"), Chars("PSF"), Chars("x"), Chars(" "), Chars("0"),
      Chars("constructor"), Chars("Constructor"), Chars("__proto__"),
      Chars("toString"), Chars("valueOf"), Chars("hasOwnProperty") }

InitClassify ==
    /\ license \in LicenseInputs
    /\ analysis = <<>>
    /\ ParseIdle
    /\ RequestIdle

Analyze ==
    /\ Len(analysis) < MaxCalls
    /\ analysis' = Append(analysis, analyzeCommercialLicense(license))
    /\ UNCHANGED <<license, parseVars, requestVars, suspended>>

NextClassify == Analyze

SpecClassify == InitClassify /\ [][NextClassify]_vars

----------------------------------------------------------------------------
(* SpecParse: parseDependencies applied to one manifest                    *)

MaxLines == 2

\* the sequences of at most MaxLines lines of a vocabulary
LineSeqs(vocabulary) == UNION { [1..n -> vocabulary] : n \in 0..MaxLines }

\* the text of the lines `opening`, then `body`, then `closing`
Text(opening, body, closing) == JoinLines(opening \o body \o closing)

RequirementsLines ==
    { Chars("requests==2.28.0"), Chars("  numpy>=1.21.0"), Chars("pandas~=1.4.0"),
      Chars("# comment"), Chars("-r other.txt"), Chars("flask"),
      Chars("pkg!=1.0"), Chars("pkg^1.0"), Chars("python") }

PyprojectOpenings ==
    { << Chars("[project]"), Chars("dependencies = [") >>,
      << Chars("[project]") >>,
      << Chars("[tool.poetry.dependencies]") >>,
      << Chars("[tool.setuptools.dependencies]") >>,
      << Chars("[project.optional-dependencies.dev]") >>,
      << Chars("[project]"), Chars("dependencies = ["), Chars("  \"flask\","),
         Chars("]") >>,
      << Chars("[build-system]"), Chars("requires = [\"setuptools\", \"wheel\"]"),
         Chars("[project]"), Chars("dependencies = [") >> }

PyprojectLines ==
    { Chars("  \"requests>=2.28.0\","), Chars("  \"setuptools\","), Chars("  \"pip\""),
      Chars("]"), Chars("requests = \"^2.28.0\""), Chars("numpy = \"~1.21.0\""),
      Chars("pandas = \"*\""), Chars("python = \"^3.8\""), Chars("wheel"),
      Chars("build = 1"), Chars("name = \"x\""),
      Chars("[project]"), Chars("[tool.black]"), Chars("[tool.poetry.dependencies]"),
      Chars("dependencies = [\"requests>=2.28.0\", \"numpy~=1.21.0\"]") }

LockLines ==
    { Chars("[[package]]"), Chars("name = \"requests\""), Chars("name = \"pip\""),
      Chars("name = \"python\""), Chars("name = 'numpy'"),
      Chars("version = \"2.28.0\""), Chars("[metadata]") }

SetupLines ==
    { Chars("    \"requests>=2.28.0\","), Chars("    \"numpy~=1.21.0\","),
      Chars("    \"pandas\","), Chars("    \"requests[security]\","),
      Chars("    'flask',"), Chars("    \"python\",") }

PipfileLines ==
    { Chars("requests = \">=2.28.0\""), Chars("\"flask\" = \"*\""),
      Chars("numpy = {version = \"*\"}"), Chars("# comment"),
      Chars("[dev-packages]"), Chars("pytest = \"*\""), Chars("python = \"3.9\"") }

UnknownFileNames == { "unknown.txt", "requirements-dev.txt", "README.md" }

ManifestOf(fileName, content) == [fileName |-> fileName, content |-> content]

\* the calls parseDependencies(content, fileName) of the model
ParseInputs ==
    { ManifestOf("requirements.txt", Text(<<>>, ls, <<>>)) : ls \in LineSeqs(RequirementsLines) }
    \cup
    { ManifestOf("pyproject.toml", Text(op, ls, <<>>)) :
        op \in PyprojectOpenings, ls \in LineSeqs(PyprojectLines) }
    \cup
    { ManifestOf(f, Text(<<Chars("version = 1"), Chars("[[package]]")>>, ls, <<>>)) :
        f \in {"uv.lock", "poetry.lock"}, ls \in LineSeqs(LockLines) }
    \cup
    { ManifestOf("setup.py", Text(<<Chars("setup("), Chars("  install_requires=[")>>,
                                  ls, <<Chars("  ],"), Chars(")")>>)) :
        ls \in LineSeqs(SetupLines) }
    \cup
    { ManifestOf("setup.py", c) :
        c \in { Chars("setup(name=\"x\")"),
                Chars("setup(\n  install_requires=[\n    \"requests>=2.28.0\",\n") } }
    \cup
    { ManifestOf("Pipfile", Text(<<Chars("[[source]]"), Chars("name = \"pypi\""),
                                   Chars("[packages]")>>, ls, <<>>)) :
        ls \in LineSeqs(PipfileLines) }
    \cup
    { ManifestOf("environment.yml", YamlDocuments[i].text) : i \in 1..Len(YamlDocuments) }
    \cup
    { ManifestOf("Pipfile.lock", JsonDocuments[i].text) : i \in 1..Len(JsonDocuments) }
    \cup
    { ManifestOf(FileNames[i], ParsedBody) : i \in 1..Len(FileNames) }
    \cup
    { ManifestOf(f, c) :
        f \in UnknownFileNames,
        c \in { Chars("some content"), Chars("requests==2.28.0\nnumpy"), ParsedBody } }

InitParse ==
    /\ manifest \in ParseInputs
    /\ parsed = NotParsed
    /\ license = Null
    /\ analysis = <<>>
    /\ RequestIdle

\* the call returns
Parse ==
    /\ ~parsed.done
    /\ parsed' = [done |-> TRUE,
                  names |-> parseDependencies(manifest.content, manifest.fileName)]
    /\ UNCHANGED <<manifest, classifyVars, requestVars, suspended>>

NextParse == Parse

SpecParse == InitParse /\ [][NextParse]_vars

----------------------------------------------------------------------------
(* Two requests on one server instance                                    *)
(*                                                                         *)
(* The handler and the methods it calls are async functions run by one    *)
(* event loop: a request runs until its next await (the fetches of lines  *)
(* 116 and 135, the batch of line 630, the pause of line 664), and then   *)
(* any request whose await has settled may run. Everything a request      *)
(* works on is a local of its own calls (lines 83-109, 621-624); the      *)
(* class has no field besides this.server (lines 19-35). The request      *)
(* variables are the locals of the request that runs, and `suspended`     *)
(* the locals of the other one.                                           *)

MaxFilesTwo == 1
MaxNamesTwo == 2

\* the locals of the request that runs
WorkingSet ==
    [request |-> request, pc |-> pc, repo |-> repo, fileIdx |-> fileIdx,
     foundFile |-> foundFile, dependencies |-> dependencies,
     fetchLog |-> fetchLog, lastResponse |-> lastResponse,
     sawFailure |-> sawFailure, sawEmptyBody |-> sawEmptyBody,
     batchStart |-> batchStart, lookupResult |-> lookupResult,
     lookupLog |-> lookupLog,
     dependenciesWithLicenses |-> dependenciesWithLicenses,
     depsResult |-> depsResult, response |-> response,
     outOfOrder |-> outOfOrder]

\* Resume with dependenciesWithLicenses kept in a field of the instance
\* instead of a local of fetchLicenseInformation
Resume_SharedRecords(saved, running) ==
    [saved EXCEPT !.dependenciesWithLicenses = running.dependenciesWithLicenses]

\* what a continuation finds when it runs again: the locals its closure
\* captured, whatever the request that ran meanwhile did to its own
Resume(saved, running) == saved

\* the request that runs reaches an await, and the other one goes on
Switch ==
    /\ suspended.request # NoPeer.request
    /\ LET own == Resume(suspended, WorkingSet) IN
          /\ request' = own.request
          /\ pc' = own.pc
          /\ repo' = own.repo
          /\ fileIdx' = own.fileIdx
          /\ foundFile' = own.foundFile
          /\ dependencies' = own.dependencies
          /\ fetchLog' = own.fetchLog
          /\ lastResponse' = own.lastResponse
          /\ sawFailure' = own.sawFailure
          /\ sawEmptyBody' = own.sawEmptyBody
          /\ batchStart' = own.batchStart
          /\ lookupResult' = own.lookupResult
          /\ lookupLog' = own.lookupLog
          /\ dependenciesWithLicenses' = own.dependenciesWithLicenses
          /\ depsResult' = own.depsResult
          /\ response' = own.response
          /\ outOfOrder' = own.outOfOrder
    /\ suspended' = WorkingSet
    /\ UNCHANGED <<classifyVars, parseVars>>

\* the part of the runs explored: the first MaxFilesTwo candidates, and
\* manifests of at most MaxNamesTwo names
Narrow == fileIdx <= MaxFilesTwo /\ Len(dependencies) <= MaxNamesTwo

InitTwo ==
    /\ request = [name |-> "list_dependencies",
                  args |-> Arguments(Chars("https://github.com/user1/repo1"))]
    /\ RequestFresh
    /\ suspended \in
          { FreshWorkingSet([name |-> "list_dependencies", args |-> Arguments(u)]) :
              u \in { Chars("https://github.com/user2/repo2.git"),
                      Chars("https://github.com/user2") } }
    /\ license = Null
    /\ analysis = <<>>
    /\ ParseIdle

NextTwo ==
    \/ CallTool /\ Narrow'
    \/ MainResponds /\ Narrow'
    \/ MasterResponds /\ Narrow'
    \/ LookupSettles
    \/ BatchSettled
    \/ Switch

SpecTwo == InitTwo /\ [][NextTwo]_vars

----------------------------------------------------------------------------
(* Claims                                                                  *)

Fetching == pc \in {"fetchMain", "fetchMaster"}

LastFetch == fetchLog[Len(fetchLog)]

\* C1: if any manifest fetch ends in a failure other than not-found, the
\* request is rejected with 'Error fetching dependencies...': no further
\* candidate is fetched, and neither a report nor the 'no manifest found'
\* result is returned.
C1_FetchFailureIsFatal ==
    sawFailure =>
        /\ pc = "done"
        /\ depsResult.kind = "error"
        /\ depsResult.message[1] = MsgErrorFetching
        /\ LastFetch = [file |-> lastResponse.file, branch |-> lastResponse.branch]

\* the order of the candidates, as the claim lists it
CandidateOrder ==
    << "requirements.txt", "pyproject.toml", "uv.lock", "poetry.lock",
       "Pipfile.lock", "setup.py", "environment.yml", "Pipfile" >>

\* position of a fetch in the order "candidate 1 on main, candidate 1 on
\* master, candidate 2 on main, ..."
FetchRank(f) ==
    2 * (CHOOSE k \in 1..Len(CandidateOrder) : CandidateOrder[k] = f.file)
    + (IF f.branch = "master" THEN 1 ELSE 0)

\* the fetches were issued in candidate order, starting with the first
\* candidate on main, and no candidate was skipped
FetchedInOrder ==
    /\ \A i \in 1..Len(fetchLog) :
          \E k \in 1..Len(CandidateOrder) : CandidateOrder[k] = fetchLog[i].file
    /\ Len(fetchLog) > 0 => fetchLog[1] = [file |-> CandidateOrder[1], branch |-> "main"]
    /\ \A i \in 1..(Len(fetchLog) - 1) :
          /\ FetchRank(fetchLog[i]) < FetchRank(fetchLog[i + 1])
          /\ FetchRank(fetchLog[i + 1]) <= 2 * (FetchRank(fetchLog[i]) \div 2) + 2

\* C2 as stated: the candidates are tried in the fixed order; the manifest
\* used is the first candidate whose fetch succeeds (is answered 200), and no
\* candidate after it is ever fetched.
C2_FirstSuccessfulFetchIsUsed ==
    /\ FetchedInOrder
    /\ lastResponse.status = 200 =>
          /\ ~Fetching
          /\ foundFile = lastResponse.file
          /\ LastFetch.file = lastResponse.file

NonEmptySuccess(resp) == resp.status = 200 /\ ~IsFalsy(resp.data)

\* C2 (amended): the candidates are tried in the fixed order; the manifest
\* used is the first candidate whose fetch is answered 200 with a non-empty
\* body, and no candidate after it is ever fetched.
C2_FirstNonEmptySuccessIsUsed ==
    /\ FetchedInOrder
    /\ NonEmptySuccess(lastResponse) =>
          /\ ~Fetching
          /\ foundFile = lastResponse.file
          /\ LastFetch.file = lastResponse.file
    /\ foundFile # "" => NonEmptySuccess(lastResponse)

\* a later candidate was used after the earlier ones had missed
C2_Witness ==
    /\ pc = "done"
    /\ foundFile = "uv.lock"
    /\ depsResult.kind = "report"
    /\ Len(fetchLog) >= 3

\* the fetch on master is issued only after the fetch of the same candidate
\* on main was answered not-found
MasterOnlyAfterNotFound ==
    /\ pc = "fetchMaster" =>
          /\ lastResponse.status = 404
          /\ lastResponse.branch = "main"
          /\ lastResponse.file = FileNames[fileIdx]
    /\ \A i \in 1..Len(fetchLog) :
          fetchLog[i].branch = "master" =>
              i > 1 /\ fetchLog[i - 1] = [file |-> fetchLog[i].file, branch |-> "main"]

\* C3 as stated: when main answers not-found and the fetch on master succeeds
\* (is answered 200), the manifest used is the master content of that same
\* candidate and no later candidate is fetched; master is fetched only after a
\* not-found on main.
C3_MasterFallback ==
    /\ MasterOnlyAfterNotFound
    /\ (lastResponse.branch = "master" /\ lastResponse.status = 200) =>
          /\ ~Fetching
          /\ foundFile = lastResponse.file
          /\ dependencies = parseDependencies(lastResponse.data, lastResponse.file)
          /\ LastFetch = [file |-> lastResponse.file, branch |-> "master"]

\* C3 (amended): the same, for a fetch on master that is answered 200 with a
\* non-empty body.
C3_MasterFallbackNonEmpty ==
    /\ MasterOnlyAfterNotFound
    /\ (lastResponse.branch = "master" /\ NonEmptySuccess(lastResponse)) =>
          /\ ~Fetching
          /\ foundFile = lastResponse.file
          /\ dependencies = parseDependencies(lastResponse.data, lastResponse.file)
          /\ LastFetch = [file |-> lastResponse.file, branch |-> "master"]

\* a manifest of the master branch was used
C3_Witness ==
    /\ pc = "done"
    /\ lastResponse.branch = "master"
    /\ foundFile = "requirements.txt"
    /\ Len(dependencies) = 2
    /\ fetchLog = << [file |-> "requirements.txt", branch |-> "main"],
                     [file |-> "requirements.txt", branch |-> "master"] >>

\* every candidate was answered not-found on both branches
AllNotFound ==
    /\ pc = "done"
    /\ Len(fetchLog) = 2 * Len(CandidateOrder)
    /\ ~sawFailure
    /\ ~sawEmptyBody
    /\ lastResponse.status = 404

\* C4: if every one of the 8 candidates answers not-found on both branches,
\* the request ends normally with the 'no dependency files found' result
\* that names all 8 candidates, and no package lookup is issued.
C4_NoManifestFound ==
    AllNotFound =>
        /\ depsResult.kind = "noFiles"
        /\ depsResult.searched = CandidateOrder
        /\ response.kind = "content"
        /\ lookupLog = <<>>

C4_Witness == AllNotFound /\ depsResult.kind = "noFiles"

\* C5: when a manifest is found and zero names are extracted from it, the
\* request ends normally with the 'found <file> but no dependencies were
\* parsed' result: no package lookup is issued and no later candidate is
\* fetched.
C5_FoundButEmpty ==
    (foundFile # "" /\ dependencies = <<>>) =>
        /\ pc = "done"
        /\ depsResult.kind = "empty"
        /\ depsResult.foundFile = foundFile
        /\ response.kind = "content"
        /\ lookupLog = <<>>
        /\ LastFetch.file = foundFile

C5_Witness ==
    /\ foundFile = "pyproject.toml"
    /\ dependencies = <<>>
    /\ depsResult.kind = "empty"

\* the locator holds "github.com/", a non-empty owner without "/", a "/" and
\* a non-empty repository name
HasOwnerAndRepo(url) ==
    \E i \in 1..Len(url), o \in 1..Len(url) :
        /\ HasAt(url, Chars("github.com/"), i)
        /\ i + 11 + o + 1 <= Len(url)
        /\ \A k \in (i + 11)..(i + 10 + o) : url[k] # "/"
        /\ url[i + 11 + o] = "/"
        /\ url[i + 12 + o] # "/"

\* the locators of the requests that hold an owner and a repository name
LocatorsWithOwnerAndRepo ==
    { u \in Urls \cup { Chars("https://github.com/user1/repo1"),
                        Chars("https://github.com/user2/repo2.git"),
                        Chars("https://github.com/user2") } : HasOwnerAndRepo(u) }

\* getPythonDependencies was called (the handler accepted the arguments)
DepsCalled ==
    /\ request.name = "list_dependencies"
    /\ ~DestructureThrows(request.args)
    /\ ~UrlArgumentRejected(request.args.github_url)

\* C6: when the locator cannot be parsed into owner and repository name,
\* getPythonDependencies fails with 'Invalid GitHub URL format' and no
\* manifest fetch and no package lookup is ever issued.
C6_InvalidLocator ==
    (DepsCalled /\ request.args.github_url \notin LocatorsWithOwnerAndRepo) =>
        /\ fetchLog = <<>>
        /\ lookupLog = <<>>
        /\ pc = "done" =>
              /\ depsResult.kind = "error"
              /\ depsResult.message[Len(depsResult.message)] = MsgInvalidUrl

C6_Witness ==
    /\ pc = "done"
    /\ request.args.github_url = Chars("https://github.com/user")
    /\ depsResult.kind = "error"

LookupFailed(answer) == answer.status # 200

\* every answer of the package index, with the license fetchPackageLicense
\* returns for it and the category analyzeCommercialLicense gives that license
AnsweredLicenses ==
    { [answer |-> a,
       license |-> fetchPackageLicense(a),
       commercialUse |-> analyzeCommercialLicense(fetchPackageLicense(a))] :
        a \in {Pending} \cup
              UNION { PyPIResponses(n) :
                        n \in { Chars("requests"), Chars("numpy"), Chars("pandas"),
                                Chars("flask"), Chars("django"),
                                Chars("gpl-package"), Chars("pytest") } } }

LicenseOfAnswer(answer) ==
    (CHOOSE e \in AnsweredLicenses : e.answer = answer).license

CategoryOfAnswer(answer) ==
    (CHOOSE e \in AnsweredLicenses : e.answer = answer).commercialUse

\* C7: fetchLicenseInformation returns one record per name; a failed lookup
\* degrades only its own record (absent license, category unknown), every
\* other name of the batch and of the later batches gets the category of its
\* own license, and the request is not aborted.
C7_PerItemDegradation ==
    /\ Len(dependenciesWithLicenses) <= Len(dependencies)
    /\ \A i \in 1..Len(dependenciesWithLicenses) :
          LET rec == dependenciesWithLicenses[i] IN
          /\ rec.name = dependencies[i]
          /\ IF LookupFailed(lookupResult[i])
             THEN rec.license = Null /\ rec.commercialUse.status = "unknown"
             ELSE /\ rec.license = LicenseOfAnswer(lookupResult[i])
                  /\ rec.commercialUse = CategoryOfAnswer(lookupResult[i])
    /\ (pc = "done" /\ foundFile # "" /\ dependencies # <<>>) =>
          /\ depsResult.kind = "report"
          /\ Len(dependenciesWithLicenses) = Len(dependencies)

\* one lookup of the first batch failed; its neighbours and a name of the
\* second batch kept their categories
C7_Witness ==
    /\ pc = "done"
    /\ Len(dependenciesWithLicenses) = MaxDeps
    /\ MaxDeps > batchSize
    /\ LookupFailed(lookupResult[1])
    /\ dependenciesWithLicenses[1].commercialUse.status = "unknown"
    /\ dependenciesWithLicenses[2].commercialUse.status = "free"
    /\ dependenciesWithLicenses[3].commercialUse.status = "paid"
    /\ dependenciesWithLicenses[MaxDeps].commercialUse.status = "free"

\* C8: a list_dependencies call whose github_url is missing, empty or not a
\* string, or whose arguments object is absent or null, is rejected with
\* 'GitHub URL is required and must be a string', and no fetch is issued.
C8_UrlRequired ==
    (/\ request.name = "list_dependencies"
     /\ \/ DestructureThrows(request.args)
        \/ UrlArgumentRejected(request.args.github_url)) =>
        /\ fetchLog = <<>>
        /\ lookupLog = <<>>
        /\ pc = "done" => response = Response("error", <<MsgUrlRequired>>)

Categories == {"free", "paid", "warning", "unknown"}

\* C9: analyzeCommercialLicense is total and deterministic: every input (an
\* absent value, the empty string, a table key, any other string) gets exactly
\* one of the categories free, paid, warning, unknown; absent and empty inputs
\* get unknown; two calls with the same input give the same category.
C9_TotalAndDeterministic ==
    /\ \A i \in 1..Len(analysis) :
          /\ analysis[i].status \in Categories
          /\ IsFalsy(license) => analysis[i].status = "unknown"
    /\ \A i, j \in 1..Len(analysis) : analysis[i].status = analysis[j].status

IsTableKey(k) ==
    k \in OwnKeys(freeCommercialLicenses) \cup OwnKeys(paidCommercialLicenses)

\* the entry written in the source for key k
TableEntry(k) ==
    LET both == freeCommercialLicenses \o paidCommercialLicenses
    IN  both[CHOOSE i \in 1..Len(both) : both[i].key = k].value

\* C10: a license string whose lower-cased form equals a key of the free or of
\* the paid table gets exactly that key's entry (category and note), whatever
\* other keys are substrings of it.
C10_ExactMatchPrecedence ==
    (~IsFalsy(license) /\ IsTableKey(ToLowerCase(license)))
        => \A i \in 1..Len(analysis) : analysis[i] = TableEntry(ToLowerCase(license))

\* a key that has a shorter key of its table as a substring was classified
C10_Witness ==
    /\ license = Chars("AGPLv3")
    /\ Includes(ToLowerCase(license), Chars("gpl"))
    /\ Len(analysis) > 0
    /\ analysis[1].note = "AGPL v3 - May require payment for commercial use"

\* the license is a string and contains k in some letter case
ContainsIgnoringCase(k) ==
    ~IsFalsy(license) /\ Includes(ToLowerCase(license), Chars(k))

\* C11: every license string that contains 'GNU' or 'copyleft', in any letter
\* case, and is not itself a table key is classified as warning.
C11_GnuAndCopyleftAreWarnings ==
    (/\ ContainsIgnoringCase("gnu") \/ ContainsIgnoringCase("copyleft")
     /\ ~IsTableKey(ToLowerCase(license)))
        => \A i \in 1..Len(analysis) : analysis[i].status = "warning"

\* GPL, AGPL and their versioned variants
GplFamily ==
    { Chars("gpl"), Chars("gplv2"), Chars("gplv3"), Chars("gpl-2.0"),
      Chars("gpl-3.0"), Chars("agpl"), Chars("agplv3") }

\* C12: a GPL or AGPL license (or a versioned variant) is put in the warning
\* category, and the paid category holds only proprietary and commercial
\* licenses.
C12_GplIsWarningPaidIsProprietary ==
    \A i \in 1..Len(analysis) :
        /\ (~IsFalsy(license) /\ ToLowerCase(license) \in GplFamily)
              => analysis[i].status = "warning"
        /\ analysis[i].status = "paid"
              => ContainsIgnoringCase("commercial") \/ ContainsIgnoringCase("proprietary")

\* the version-operator characters
OperatorChars == { "=", "<", ">", "~", "^", "!", "*" }

\* C13: every name a parser returns is non-empty and contains none of the
\* version-operator characters = < > ~ ^ ! *.
C13_NamesAreBare ==
    parsed.done =>
        \A i \in 1..Len(parsed.names) :
            /\ parsed.names[i] # <<>>
            /\ \A k \in 1..Len(parsed.names[i]) : parsed.names[i][k] \notin OperatorChars

\* where the name is first seen in the text of the manifest
FirstSeen(dep) == IndexOf(manifest.content, dep)

\* the names come in the order in which the text first shows them
NamesInFirstSeenOrder ==
    parsed.done =>
        \A i, j \in 1..Len(parsed.names) :
            i < j => FirstSeen(parsed.names[i]) <= FirstSeen(parsed.names[j])

\* C14: the list a parser returns contains no name twice, and its names are
\* in first-seen order of the input.
C14_NoDuplicatesInFirstSeenOrder ==
    /\ parsed.done =>
          \A i, j \in 1..Len(parsed.names) : i < j => parsed.names[i] # parsed.names[j]
    /\ NamesInFirstSeenOrder

\* C15: no parser returns the interpreter name 'python'; parseEnvironmentYml
\* drops an entry that names python with a version pin.
C15_NeverPython ==
    parsed.done => \A i \in 1..Len(parsed.names) : parsed.names[i] # Chars("python")

\* the names the claim lists: interpreter, build backend, wheel builder,
\* build front end, installer
ExcludedNames ==
    { Chars("python"), Chars("setuptools"), Chars("wheel"), Chars("build"), Chars("pip") }

\* C16: the result of parsePyprojectToml contains none of python, setuptools,
\* wheel, build, pip, whatever section and line form carried the name.
C16_ToolchainNamesExcluded ==
    (parsed.done /\ manifest.fileName = "pyproject.toml") =>
        \A i \in 1..Len(parsed.names) : parsed.names[i] \notin ExcludedNames

\* the scanner collected pip from a quoted array element next to a package,
\* and only the package was returned
C16_Witness ==
    /\ parsed.done
    /\ manifest = ManifestOf("pyproject.toml",
          Chars("[project]\ndependencies = [\n  \"requests>=2.28.0\",\n  \"pip\""))
    /\ PyprojectScan(Lines(manifest.content), 1,
          [inDependenciesSection |-> FALSE, currentSection |-> <<>>,
           dependencies |-> <<>>]).dependencies = << Chars("requests"), Chars("pip") >>
    /\ parsed.names = << Chars("requests") >>

RecognizedNames ==
    { "requirements.txt", "pyproject.toml", "uv.lock", "poetry.lock",
      "Pipfile.lock", "setup.py", "environment.yml", "Pipfile" }

\* the selected parser raises on the content: it is no string, or the library
\* parser rejects it, or the parsed document is null
ParserRaises ==
    \/ manifest.content = ParsedBody
    \/ /\ manifest.fileName = "Pipfile.lock"
       /\ JsonParse(manifest.content).kind \in {"error", "null"}
    \/ /\ manifest.fileName = "environment.yml"
       /\ parseYaml(manifest.content).kind \in {"error", "null"}

\* C17: parseDependencies returns the empty list for every file name outside
\* the 8 recognized names and for every input on which the selected parser
\* raises.
C17_DispatcherDegradesToEmpty ==
    (parsed.done /\ (manifest.fileName \notin RecognizedNames \/ ParserRaises)) =>
        parsed.names = <<>>

\* a requirements text under an unrecognized name gave nothing
C17_Witness ==
    /\ parsed.done
    /\ manifest = ManifestOf("requirements-dev.txt", Chars("requests==2.28.0\nnumpy"))
    /\ parseRequirementsTxt(manifest.content) # <<>>
    /\ parsed.names = <<>>

SectionHeaders ==
    { Chars("[tool.poetry.dependencies]"), Chars("[tool.setuptools.dependencies]"),
      Chars("[project.optional-dependencies.dev]") }

KeyConstraintLines ==
    { Chars("requests = \"^2.28.0\""), Chars("numpy = \"~1.21.0\""), Chars("pandas = \"*\"") }

\* the text before '='
KeyOf(line) == Trim(SplitFirst(line, Chars("=")))

\* C20: inside a recognized dependency section of pyproject.toml a line of the
\* form key = "constraint" contributes its key as a package name.
C20_KeyValueLineGivesKey ==
    LET lines == Lines(manifest.content) IN
    (/\ parsed.done
     /\ manifest.fileName = "pyproject.toml"
     /\ manifest.content # ParsedBody
     /\ lines[1] \in SectionHeaders
     /\ \A i \in 2..Len(lines) : lines[i] \in KeyConstraintLines) =>
        \A i \in 2..Len(lines) :
            \E k \in 1..Len(parsed.names) : parsed.names[k] = KeyOf(lines[i])

\* the number of category sections of the report that list the record
SectionsListing(rec) ==
    Cardinality({ s \in Categories :
        \E k \in 1..Len(depsResult.sections[s]) : depsResult.sections[s][k] = rec })

\* C18: in every report each extracted dependency is listed in exactly one of
\* the four category sections, and the four counts of the summary add up to
\* the number of extracted package names.
C18_OneSectionPerDependency ==
    depsResult.kind = "report" =>
        /\ \A i \in 1..Len(dependenciesWithLicenses) :
              SectionsListing(dependenciesWithLicenses[i]) = 1
        /\ Len(depsResult.sections.free) + Len(depsResult.sections.warning)
             + Len(depsResult.sections.paid) + Len(depsResult.sections.unknown)
           = Len(dependencies)

\* the owner and repository the code extracts from every URL (lines 86-92);
\* owner <<>> when the URL does not match
KnownRepos ==
    { [url |-> u,
       repo |-> IF UrlMatch(u) = <<>> THEN NoRepo
                ELSE [owner |-> UrlMatch(u)[1],
                      repoName |-> RemoveGitSuffix(UrlMatch(u)[2])]] :
        u \in Urls \cup { Chars("https://github.com/user1/repo1"),
                          Chars("https://github.com/user2/repo2.git"),
                          Chars("https://github.com/user2") } }

\* the one of the request of the locals w
OwnRepo(w) == (CHOOSE e \in KnownRepos : e.url = w.request.args.github_url).repo

\* parseDependencies on every manifest the hosting service can answer with
ParsedContents ==
    UNION { { [file |-> FileNames[i], data |-> c,
               names |-> parseDependencies(c, FileNames[i])] :
                 c \in Contents(FileNames[i]) } :
            i \in 1..Len(FileNames) }

\* the names of the manifest that answered the request of the locals w
OwnNames(w) ==
    (CHOOSE e \in ParsedContents :
        e.file = w.lastResponse.file /\ e.data = w.lastResponse.data).names

\* the record of every name of these manifests, for every answer to its lookup
KnownRecords ==
    UNION { UNION { { [name |-> e.names[k], answer |-> a,
                       record |-> LicenseRecord(e.names[k], a)] :
                         a \in PyPIResponses(e.names[k]) } :
                    k \in 1..Len(e.names) } :
            e \in ParsedContents }

OwnRecord(depName, answer) ==
    (CHOOSE e \in KnownRecords : e.name = depName /\ e.answer = answer).record

\* what getPythonDependencies returns for the request of the locals w, given
\* the answers that request itself received
AloneResult(w) ==
    LET file == w.lastResponse.file
        names == IF NonEmptySuccess(w.lastResponse) THEN OwnNames(w) ELSE <<>>
    IN  IF OwnRepo(w) = NoRepo
        THEN Result("error", <<MsgErrorFetching, MsgInvalidUrl>>, "", <<>>, NoSections)
        ELSE IF ~NonEmptySuccess(w.lastResponse)
        THEN Result("noFiles", <<>>, "", FileNames, NoSections)
        ELSE IF names = <<>>
        THEN Result("empty", <<>>, file, <<>>, NoSections)
        ELSE BuildReport(file, [i \in 1..Len(names) |->
                                   OwnRecord(names[i], w.lookupResult[i])])

\* the locals w hold what the request's own URL and answers determine
OwnStateOnly(w) ==
    /\ (w.pc # "idle" /\ OwnRepo(w) # NoRepo) => w.repo = OwnRepo(w)
    /\ w.pc = "lookups" =>
          /\ w.foundFile = w.lastResponse.file
          /\ w.dependencies = OwnNames(w)
          /\ Len(w.lookupResult) = Len(w.dependencies)
          /\ w.batchStart = 1 =>
                /\ w.lookupLog = BatchNames(w.dependencies, 1)
                /\ w.dependenciesWithLicenses = <<>>
    /\ w.pc = "done" => w.depsResult = AloneResult(w)

\* C19: however two getPythonDependencies requests on one server instance
\* are interleaved, each one's result is the result it produces alone, that
\* is the one its own URL and the answers to its own fetches and lookups
\* determine: no request reads or writes state of the other.
C19_RequestsAreIsolated ==
    /\ OwnStateOnly(WorkingSet)
    /\ OwnStateOnly(suspended)

\* both requests are in the middle of their license lookups at once, on
\* different repositories, with manifests found on different branches and
\* different answers to their lookups
C19_Witness ==
    /\ pc = "lookups"
    /\ suspended.pc = "lookups"
    /\ repo # suspended.repo
    /\ lastResponse.branch # suspended.lastResponse.branch
    /\ lookupResult[1] # Pending
    /\ suspended.lookupResult[1] # Pending
    /\ lookupResult[1] # suspended.lookupResult[1]

\* parsePyprojectToml has been called on the text of the manifest
PyprojectCall ==
    parsed.done /\ manifest.fileName = "pyproject.toml" /\ manifest.content # ParsedBody

\* the scanner of parsePyprojectToml after the first n lines of the manifest
ScanAfter(n) ==
    PyprojectScan(SubSeq(Lines(manifest.content), 1, n), 1,
                  [inDependenciesSection |-> FALSE,
                   currentSection |-> <<>>,
                   dependencies |-> <<>>])

\* line n of the manifest, trimmed
TrimmedLine(n) == Trim(Lines(manifest.content)[n])

IsSectionHeader(line) == StartsWith(line, Chars("[")) /\ EndsWith(line, Chars("]"))

IsDependencyHeader(line) ==
    \/ line \in DependencySections
    \/ \E pre \in OptionalSectionPrefixes : StartsWith(line, pre)

\* a key = value line that is not the opening of an array
IsKeyValueLine(line) ==
    /\ KeyMatch(line) # <<>>
    /\ ~StartsWith(line, Chars("dependencies = ["))
    /\ ~StartsWith(line, Chars("dev = ["))

\* C21: in parsePyprojectToml, while scanning is on, every section-header
\* line that is not a recognized dependency section, [project] included,
\* turns scanning off, and a key/value line right under it contributes no
\* name.
C21_OtherHeaderEndsScanning ==
    PyprojectCall =>
        \A n \in 1..Len(Lines(manifest.content)) :
            (/\ ScanAfter(n - 1).inDependenciesSection
             /\ IsSectionHeader(TrimmedLine(n))
             /\ ~IsDependencyHeader(TrimmedLine(n))) =>
                /\ ~ScanAfter(n).inDependenciesSection
                /\ (n < Len(Lines(manifest.content)) /\ IsKeyValueLine(TrimmedLine(n + 1))) =>
                      ScanAfter(n + 1).dependencies = ScanAfter(n).dependencies

\* the line turns scanning on: a recognized header or the opening of an array
IsEntryLine(line) ==
    \/ IsDependencyHeader(line)
    \/ StartsWith(line, Chars("dependencies = ["))
    \/ StartsWith(line, Chars("dev = ["))

Elements(xs) == { xs[k] : k \in 1..Len(xs) }

\* the scanner after each of the first n lines of the manifest: element
\* k + 1 is the scanner after line k, which the loop body makes of the
\* scanner after line k - 1 and of line k (it is ScanAfter(k))
RECURSIVE ScanTrace(_, _)
ScanTrace(lines, n) ==
    IF n = 0
    THEN << [inDependenciesSection |-> FALSE,
             currentSection |-> <<>>,
             dependencies |-> <<>>] >>
    ELSE LET earlier == ScanTrace(lines, n - 1)
         IN  Append(earlier, PyprojectScan(SubSeq(lines, 1, n), n, earlier[n]))

\* the first line after which the scanner holds the name
ContributedAt(trace, dep) ==
    CHOOSE n \in 1..(Len(trace) - 1) :
        /\ dep \in Elements(trace[n + 1].dependencies)
        /\ dep \notin Elements(trace[n].dependencies)

SingleLineArray == Chars("dependencies = [\"requests>=2.28.0\", \"numpy~=1.21.0\"]")

\* C23: a pyproject.toml dependencies array written on one line,
\* dependencies = ["requests>=2.28.0", "numpy~=1.21.0"], contributes each of
\* its quoted elements as a name (requests and numpy), which are returned,
\* and scanning is off after that line.
C23_SingleLineArrayGivesItsElements ==
    PyprojectCall =>
        \A n \in 1..Len(Lines(manifest.content)) :
            TrimmedLine(n) = SingleLineArray =>
                /\ { Chars("requests"), Chars("numpy") }
                      \subseteq Elements(ScanAfter(n).dependencies)
                /\ { Chars("requests"), Chars("numpy") } \subseteq Elements(parsed.names)
                /\ ~ScanAfter(n).inDependenciesSection

\* the text of a requirement before its first version-operator character
BareName(element) == Trim(SubSeq(element, 1, RunNotIn(element, 1, OperatorChars)))

\* the lines of an install_requires list written one element per line, from
\* the line after the opening to the line before the first line that closes
\* it; <<>> without an opening or without a closing line
ListLines ==
    LET lines == Lines(manifest.content)
        Opens(n) == Includes(lines[n], Chars("install_requires"))
        Closes(n) == StartsWith(Trim(lines[n]), Chars("]"))
    IN  IF \E a, b \in 1..Len(lines) : a < b /\ Opens(a) /\ Closes(b)
        THEN LET a == CHOOSE n \in 1..Len(lines) :
                        Opens(n) /\ \A k \in 1..(n - 1) : ~Opens(k)
                 b == CHOOSE n \in (a + 1)..Len(lines) :
                        Closes(n) /\ \A k \in (a + 1)..(n - 1) : ~Closes(k)
             IN  SubSeq(lines, a + 1, b - 1)
        ELSE <<>>

\* the bare names of the double-quoted elements of the lines, in order
RECURSIVE ListedNames(_)
ListedNames(lines) ==
    IF lines = <<>> THEN <<>>
    ELSE LET quoted == DoubleQuoted(lines[1], 1) IN
         [k \in 1..Len(quoted) |-> BareName(quoted[k])] \o ListedNames(Tail(lines))

\* C24: parseSetupPy returns one name, version operators stripped, for every
\* double-quoted element of the first install_requires list, also for an
\* element that contains a closing bracket (an extras marker) and for the
\* elements after it; without such a list it returns nothing.
C24_EveryListedElementGivesItsName ==
    (parsed.done /\ manifest.fileName = "setup.py" /\ manifest.content # ParsedBody) =>
        parsed.names = ListedNames(ListLines)

\* analyzeCommercialLicense with the substring step run on the paid table
\* before the free table
PaidTableFirst(lic) ==
    IF IsFalsy(lic)
    THEN [status |-> "unknown", note |-> NoteUnavailable]
    ELSE LET licenseLower == ToLowerCase(lic) IN
         IF HasProperty(freeCommercialLicenses, licenseLower)
         THEN GetProperty(freeCommercialLicenses, licenseLower)
         ELSE IF HasProperty(paidCommercialLicenses, licenseLower)
         THEN GetProperty(paidCommercialLicenses, licenseLower)
         ELSE IF HasPartialMatch(paidCommercialLicenses, licenseLower)
         THEN FirstPartialMatch(paidCommercialLicenses, licenseLower)
         ELSE IF HasPartialMatch(freeCommercialLicenses, licenseLower)
         THEN FirstPartialMatch(freeCommercialLicenses, licenseLower)
         ELSE analyzeCommercialLicense(lic)

\* C25: for every license string the substring step gives the same category
\* with the paid table tried before the free table as with the implemented
\* order: no license string contains a key of both tables.
C25_TableOrderHasNoEffect ==
    \A i \in 1..Len(analysis) :
        /\ analysis[i].status = PaidTableFirst(license).status
        /\ ~IsFalsy(license) =>
              ~(/\ HasPartialMatch(freeCommercialLicenses, ToLowerCase(license))
                /\ HasPartialMatch(paidCommercialLicenses, ToLowerCase(license)))

HeuristicWords == { Chars("copyleft"), Chars("commercial"), Chars("proprietary") }

\* the value is the one of an entry of a table
IsTableValue(value) ==
    \E table \in { freeCommercialLicenses, paidCommercialLicenses } :
        \E k \in 1..Len(table) : table[k].value = value

Outstanding == { i \in 1..Len(lookupLog) : lookupResult[i] = Pending }

\* at most batchSize lookups are in flight, all of the current batch; the
\* pause is taken only with every lookup settled and names still to look up
BatchesInOrder ==
    /\ Cardinality(Outstanding) <= batchSize
    /\ \A i \in Outstanding : batchStart <= i /\ i < batchStart + batchSize
    /\ pc = "pause" => (Outstanding = {} /\ Len(lookupLog) < Len(dependencies))
    /\ depsResult.kind = "report" =>
          (Outstanding = {} /\ Len(lookupLog) = Len(dependencies))

\* a step that issues lookups: the first batch, or a batch that follows the
\* pause taken after the batch before it had settled
BatchStartsAfterPause ==
    Len(lookupLog') > Len(lookupLog) =>
        /\ Len(lookupLog') - Len(lookupLog) <= batchSize
        /\ Len(lookupLog) = 0 \/ (pc = "pause" /\ Outstanding = {})

\* C26: during fetchLicenseInformation at most 5 lookups are in flight and
\* they belong to one batch; a lookup of the next batch is issued only after
\* every lookup of the batch before it has settled and the pause between the
\* batches was taken, and no pause follows the last batch.
C26_BatchesAreSequential ==
    []BatchesInOrder /\ [][BatchStartsAfterPause]_vars

\* the second batch is in flight after a first batch in which a lookup failed
C26_Witness ==
    /\ pc = "lookups"
    /\ batchStart = batchSize + 1
    /\ Outstanding = { batchSize + 1 }
    /\ LookupFailed(lookupResult[1])
    /\ Len(dependenciesWithLicenses) = batchSize

\* C28: the records fetchLicenseInformation returns are in the order of the
\* input names: record i carries name i and the license of the answer to the
\* lookup of name i, whatever the order in which the lookups of a batch
\* complete or fail.
C28_RecordsFollowInputOrder ==
    /\ Len(dependenciesWithLicenses) <= Len(dependencies)
    /\ \A i \in 1..Len(dependenciesWithLicenses) :
          /\ dependenciesWithLicenses[i].name = dependencies[i]
          /\ dependenciesWithLicenses[i].license = LicenseOfAnswer(lookupResult[i])
    /\ depsResult.kind = "report" =>
          Len(dependenciesWithLicenses) = Len(dependencies)

\* a report on more than one batch, after a lookup had settled before one
\* issued ahead of it and the second lookup had failed
C28_Witness ==
    /\ depsResult.kind = "report"
    /\ outOfOrder
    /\ Len(dependenciesWithLicenses) = MaxDeps
    /\ ~LookupFailed(lookupResult[1])
    /\ LookupFailed(lookupResult[2])
    /\ dependenciesWithLicenses[2].license = Null
    /\ dependenciesWithLicenses[1].license # Null

\* the step in which the fetch on main is answered 200 with an empty body:
\* the candidate is not selected, master is not fetched for it, and the next
\* candidate is fetched on main, or the search ends without a manifest
EmptyMainBodyIsMiss ==
    (/\ pc = "fetchMain"
     /\ lastResponse'.status = 200
     /\ IsFalsy(lastResponse'.data)) =>
        /\ lastResponse'.file = FileNames[fileIdx]
        /\ lastResponse'.branch = "main"
        /\ foundFile' = ""
        /\ pc' # "fetchMaster"
        /\ depsResult'.kind # "empty"
        /\ IF fileIdx < Len(FileNames)
           THEN /\ pc' = "fetchMain"
                /\ fetchLog' = Append(fetchLog, [file |-> FileNames[fileIdx + 1],
                                                 branch |-> "main"])
           ELSE /\ depsResult'.kind = "noFiles"
                /\ fetchLog' = fetchLog

\* C29: a response of the main branch with status 200 and an empty body is a
\* miss: the candidate is not selected, the master branch is not fetched for
\* it and the search goes on with the next candidate, so the 'found but
\* empty' outcome never comes from an empty manifest.
C29_EmptyBodyIsMiss ==
    /\ [][EmptyMainBodyIsMiss]_vars
    /\ [](depsResult.kind = "empty" => NonEmptySuccess(lastResponse))

\* requirements.txt was answered 200 with an empty body on main, master was
\* not fetched for it, and pyproject.toml was fetched next and used
C29_Witness ==
    /\ sawEmptyBody
    /\ ~sawFailure
    /\ fetchLog = << [file |-> "requirements.txt", branch |-> "main"],
                     [file |-> "pyproject.toml", branch |-> "main"] >>
    /\ foundFile = "pyproject.toml"
    /\ depsResult.kind = "report"

\* the request has ended with one of the outcomes: a result of
\* getPythonDependencies (report, 'no manifest found', 'found but empty' or
\* a rejection), or a rejection by the handler before it is called
TerminalOutcome ==
    /\ response.kind \in {"content", "error"}
    /\ \/ depsResult.kind \in {"report", "noFiles", "empty", "error"}
       \/ depsResult.kind = "none" /\ response.kind = "error"

\* at most 16 manifest fetches, and one lookup per extracted name, issued in
\* the order of the names
BoundedQueries ==
    /\ Len(fetchLog) <= 16
    /\ Len(lookupLog) <= Len(dependencies)
    /\ lookupLog = SubSeq(dependencies, 1, Len(lookupLog))
    /\ pc = "done" => TerminalOutcome
    /\ pc # "done" => (depsResult.kind = "none" /\ response.kind = "none")
    /\ depsResult.kind = "report" => (lookupLog = dependencies /\ Outstanding = {})
    /\ depsResult.kind \in {"noFiles", "empty", "error"} => lookupLog = <<>>

\* C27: when every outbound call eventually answers or fails, every request
\* eventually ends, with exactly one terminal outcome (report, 'no manifest
\* found', 'found but empty' or error) after which nothing more happens,
\* having issued at most 16 manifest fetches and exactly one lookup per
\* extracted name.
C27_EveryRequestTerminates ==
    /\ <>(pc = "done")
    /\ []BoundedQueries
    /\ [][pc # "done"]_vars

\* the longest search: every candidate is answered not-found on both
\* branches, and the request ends with 'no manifest found'
C27_Witness ==
    /\ pc = "done"
    /\ depsResult.kind = "noFiles"
    /\ Len(fetchLog) = 16

====
